---- MODULE Spec2Model ----
(***************************************************************************)
(* A model of the CONIKS-style persistent authenticated dictionary: the    *)
(* Merkle prefix tree (merkletree), the signed tree roots, the PAD engine  *)
(* and the directory facade (directory.Tree) with its temporary bindings.  *)
(*                                                                         *)
(* Byte strings are sequences of integers 0..255.  The cryptographic       *)
(* primitives are modelled symbolically and collision free: a digest, a    *)
(* keyed hash or a signature is the sequence of the bytes it was computed  *)
(* over, enclosed in a pair of negative marker integers that no byte       *)
(* string contains.  A nil slice is the one-element sequence Nil, so that  *)
(* it differs from an empty, non-nil slice as it does in Go.               *)
(***************************************************************************)
EXTENDS Integers, Sequences, FiniteSets, TLC

(***************************************************************************)
(* Bounds of the model.                                                    *)
(***************************************************************************)
\* Update is not taken once the latest epoch has reached MaxEpoch.
MaxEpoch == 2

\* The PAD is constructed with a capacity in 1..MaxCapacity.
MaxCapacity == 2

alice == <<97>>

bob == <<98>>

k1 == <<1>>

k2 == <<2>>

\* Names a request can carry; <<>> is the empty name.
Names == {<<>>, alice, bob}

\* Values a request can carry; <<>> is the empty value.
Values == {<<>>, k1, k2}

\* Outcomes of hashed.RandSlice when it is used as a commitment salt.
Salts == {<<11>>, <<12>>}

\* The salts drawn for the commitments of a directory's PAD.
DirSalts == {<<11>>}

\* Update intervals SetPolicies can be called with.
Intervals == {1, 2}

\* The number of Set calls made on a merkle tree that is used directly.
MaxSets == 3

\* The number of Set calls made on a merkle tree and its clone together.
MaxCloneSets == 2

\* Indices, keys and values those Set calls carry.  <<1>> and <<33>> agree on
\* two bits, <<65>> agrees with them on one, <<129>> on none.
Indices == {<<1>>, <<33>>, <<65>>, <<129>>}

TreeKeys == {alice}

\* The Sets a writer applies while a reader reads a snapshot, before and after
\* the Update that makes the snapshot.
MaxReaderSets == 2

\* The callers that run Tree.Register at the same time.
Callers == {1, 2}

\* The value lists a commitment is made of and verified against: one or two
\* values out of "a", "ab", "bc" and "c".
CommitValues == {<<97>>, <<97, 98>>, <<98, 99>>, <<99>>}

ValueLists == {<<x>> : x \in CommitValues} \cup {<<x, y>> : x, y \in CommitValues}

TreeValues == {k1, k2}

(***************************************************************************)
(* Byte slices.                                                            *)
(***************************************************************************)
Nil == <<-100>>

\* The bytes of a slice: a nil slice has none.
Bs(s) == IF s = Nil THEN <<>> ELSE s

copyOfBs(bs) == Bs(bs)

RECURSIVE Concat(_)
Concat(ms) == IF ms = <<>> THEN <<>> ELSE Bs(Head(ms)) \o Concat(Tail(ms))

RECURSIVE NativeBytes(_, _)
NativeBytes(num, width) ==
    IF width = 0 THEN <<>> ELSE <<num % 256>> \o NativeBytes(num \div 256, width - 1)

LongToBytes(num) == NativeBytes(num, 8)

ULongToBytes(num) == LongToBytes(num)

UInt32ToBytes(num) == NativeBytes(num, 4)

RECURSIVE Pow2(_)
Pow2(n) == IF n = 0 THEN 1 ELSE 2 * Pow2(n - 1)

GetNthBit(bs, offset) ==
    LET arrayOffset == offset \div 8
        bitOfByte == offset % 8
    IN  (bs[arrayOffset + 1] \div Pow2(7 - bitOfByte)) % 2 = 1

ToBits(bs) == [i \in 1..(8 * Len(bs)) |-> GetNthBit(bs, i - 1)]

ToBytes(bits) ==
    LET n == (Len(bits) + 7) \div 8
        Bit(i) == IF i <= Len(bits) /\ bits[i] THEN 1 ELSE 0
    IN  [b \in 1..n |->
            Bit(8*b - 7) * 128 + Bit(8*b - 6) * 64 + Bit(8*b - 5) * 32 + Bit(8*b - 4) * 16
            + Bit(8*b - 3) * 8 + Bit(8*b - 2) * 4 + Bit(8*b - 1) * 2 + Bit(8*b)]

copyOfBools(bs, extra) == bs \o extra

(***************************************************************************)
(* crypto/hashed, crypto/sign, crypto/vrf.                                 *)
(***************************************************************************)
Digest(ms) == <<-1>> \o Concat(ms) \o <<-2>>

\* What Get copies a cached hash into: a zeroed array when the slice has no bytes.
HashArr(h) == IF Bs(h) = <<>> THEN <<0>> ELSE h

CommitHash(values, salt) == <<-3>> \o salt \o <<-4>> \o Concat(values) \o <<-5>>

NewCommit(values, salt) == [Salt |-> salt, Hash |-> CommitHash(values, salt)]

CommitVerify(c, values) == c.Hash = CommitHash(values, Bs(c.Salt))

\* A private signing key is a seed followed by the public key.
SignKey == <<201, 202>>

Public(key) == SubSeq(key, 2, 2)

Sign(key, message) == <<-6>> \o Public(key) \o <<-7>> \o message \o <<-8>>

Verify(pk, message, sig) == sig = <<-6>> \o pk \o <<-7>> \o message \o <<-8>>

\* The VRF index of a name, one byte wide.  alice and bob share their first
\* two bits; the low bit is set, so that no index equals the zero-padded
\* prefix carried by an empty node (for a 256-bit pseudorandom index the
\* chance of such an equality is negligible).
VrfIndex(name) ==
    CASE name = alice -> <<1>>
      [] name = bob -> <<33>>
      [] OTHER -> <<129>>

VrfPublicKey == <<200>>

(***************************************************************************)
(* merkletree: nodes.  A tree's nodes are a function from the path of a    *)
(* node (0 = left, 1 = right, <<>> = root) to the node; parent holds the   *)
(* path of the parent node.                                                *)
(***************************************************************************)
LeafIdentifier == 76

EmptyBranchIdentifier == 69

NoParent == <<-1>>

NoCommit == [Salt |-> Nil, Hash |-> Nil]

interiorNode(parent, level, leftHash, rightHash) ==
    [kind |-> "interior", parent |-> parent, level |-> level,
     leftHash |-> leftHash, rightHash |-> rightHash,
     key |-> <<>>, value |-> Nil, index |-> Nil, commitment |-> NoCommit]

userLeafNode(parent, level, key, value, index, commitment) ==
    [kind |-> "leaf", parent |-> parent, level |-> level,
     leftHash |-> Nil, rightHash |-> Nil,
     key |-> key, value |-> value, index |-> index, commitment |-> commitment]

emptyNode(parent, level, index) ==
    [kind |-> "empty", parent |-> parent, level |-> level,
     leftHash |-> Nil, rightHash |-> Nil,
     key |-> <<>>, value |-> Nil, index |-> index, commitment |-> NoCommit]

\* newInteriorNode that gives the right empty child the prefix of the left one.
newInteriorNode_leftPrefixTwice(ptr, parent, level, prefixBits) ==
    (ptr :> interiorNode(parent, level, Nil, Nil))
    @@ ((ptr \o <<0>>) :> emptyNode(ptr, level + 1, ToBytes(copyOfBools(prefixBits, <<FALSE>>))))
    @@ ((ptr \o <<1>>) :> emptyNode(ptr, level + 1, ToBytes(copyOfBools(prefixBits, <<FALSE>>))))

\* The interior node created at path ptr, with its two empty children.
newInteriorNode(ptr, parent, level, prefixBits) ==
    (ptr :> interiorNode(parent, level, Nil, Nil))
    @@ ((ptr \o <<0>>) :> emptyNode(ptr, level + 1, ToBytes(copyOfBools(prefixBits, <<FALSE>>))))
    @@ ((ptr \o <<1>>) :> emptyNode(ptr, level + 1, ToBytes(copyOfBools(prefixBits, <<TRUE>>))))

isEmpty(n) == n.kind = "empty"

\* The hash of a user leaf node without its commitment.
userLeafNodeHash_noCommitment(n, nonce) ==
    Digest(<<<<LeafIdentifier>>, nonce, n.index, UInt32ToBytes(n.level)>>)

userLeafNodeHash(n, nonce) ==
    Digest(<<<<LeafIdentifier>>, nonce, n.index, UInt32ToBytes(n.level), n.commitment.Hash>>)

\* The hash of an empty node without its level.
emptyNodeHash_noLevel(n, nonce) ==
    Digest(<<<<EmptyBranchIdentifier>>, nonce, n.index>>)

emptyNodeHash(n, nonce) ==
    Digest(<<<<EmptyBranchIdentifier>>, nonce, n.index, UInt32ToBytes(n.level)>>)

\* hash of the node at path p; the result carries the nodes with the caches it filled.
RECURSIVE nodeHash(_, _, _)
nodeHash(nodes, p, nonce) ==
    LET n == nodes[p]
    IN  IF n.kind = "interior"
        THEN LET l == IF n.leftHash = Nil
                      THEN nodeHash(nodes, p \o <<0>>, nonce)
                      ELSE [nodes |-> nodes, h |-> n.leftHash]
                 nodes1 == [l.nodes EXCEPT ![p].leftHash = l.h]
                 r == IF n.rightHash = Nil
                      THEN nodeHash(nodes1, p \o <<1>>, nonce)
                      ELSE [nodes |-> nodes1, h |-> n.rightHash]
                 nodes2 == [r.nodes EXCEPT ![p].rightHash = r.h]
             IN  [nodes |-> nodes2, h |-> Digest(<<l.h, r.h>>)]
        ELSE IF n.kind = "leaf"
        THEN [nodes |-> nodes, h |-> userLeafNodeHash(n, nonce)]
        ELSE [nodes |-> nodes, h |-> emptyNodeHash(n, nonce)]

\* clone that leaves the parent of the new node nil.
cloneNode_noParent(n, parent) ==
    IF n.kind = "interior"
    THEN interiorNode(NoParent, n.level, copyOfBs(n.leftHash), copyOfBs(n.rightHash))
    ELSE IF n.kind = "leaf"
    THEN userLeafNode(NoParent, n.level, n.key, copyOfBs(n.value), copyOfBs(n.index), n.commitment)
    ELSE emptyNode(NoParent, n.level, copyOfBs(n.index))

\* clone of the node n under the interior node at path parent.
cloneNode(n, parent) ==
    IF n.kind = "interior"
    THEN interiorNode(parent, n.level, copyOfBs(n.leftHash), copyOfBs(n.rightHash))
    ELSE IF n.kind = "leaf"
    THEN userLeafNode(parent, n.level, n.key, copyOfBs(n.value), copyOfBs(n.index), n.commitment)
    ELSE emptyNode(parent, n.level, copyOfBs(n.index))

(***************************************************************************)
(* merkletree: MerkleTree.                                                 *)
(***************************************************************************)
NewMerkleTree(nonce) ==
    [nonce |-> nonce, nodes |-> newInteriorNode(<<>>, NoParent, 0, <<>>), hash |-> Nil]

ProofNode(level, index, value, empty, commitment) ==
    [Level |-> level, Index |-> index, Value |-> value, IsEmpty |-> empty,
     Commitment |-> commitment]

\* The search loop of Get: the sibling hashes collected from nodePointer downwards.
RECURSIVE searchLoop(_, _, _, _)
searchLoop(m, lookupIndexBits, nodePointer, depth) ==
    LET n == m.nodes[nodePointer]
    IN  IF n.kind \in {"leaf", "empty"}
        THEN [PrunedTree |-> <<>>, nodePointer |-> nodePointer]
        ELSE LET direction == lookupIndexBits[depth + 1]
                 hashArr == IF direction THEN HashArr(n.leftHash) ELSE HashArr(n.rightHash)
                 next == nodePointer \o (IF direction THEN <<1>> ELSE <<0>>)
                 rest == searchLoop(m, lookupIndexBits, next, depth + 1)
             IN  [PrunedTree |-> <<hashArr>> \o rest.PrunedTree, nodePointer |-> rest.nodePointer]

\* Get that returns the leaf of another index with its value and salt.
Get_noRedaction(m, lookupIndex) ==
    LET walk == searchLoop(m, ToBits(lookupIndex), <<>>, 0)
        pNode == m.nodes[walk.nodePointer]
        leaf == IF pNode.kind = "leaf"
                THEN IF pNode.index = lookupIndex
                     THEN ProofNode(pNode.level, pNode.index, pNode.value, FALSE, pNode.commitment)
                     ELSE ProofNode(pNode.level, pNode.index, pNode.value, FALSE, pNode.commitment)
                ELSE ProofNode(pNode.level, pNode.index, Nil, TRUE, NoCommit)
    IN  [TreeNonce |-> m.nonce, LookupIndex |-> lookupIndex,
         PrunedTree |-> walk.PrunedTree, Leaf |-> leaf]

Get(m, lookupIndex) ==
    LET walk == searchLoop(m, ToBits(lookupIndex), <<>>, 0)
        pNode == m.nodes[walk.nodePointer]
        leaf == IF pNode.kind = "leaf"
                THEN IF pNode.index = lookupIndex
                     THEN ProofNode(pNode.level, pNode.index, pNode.value, FALSE, pNode.commitment)
                     ELSE ProofNode(pNode.level, pNode.index, Nil, FALSE,
                                    [pNode.commitment EXCEPT !.Salt = Nil])
                ELSE ProofNode(pNode.level, pNode.index, Nil, TRUE, NoCommit)
    IN  [TreeNonce |-> m.nonce, LookupIndex |-> lookupIndex,
         PrunedTree |-> walk.PrunedTree, Leaf |-> leaf]

\* The insertion loop of insertNode, from nodePointer at the given depth.
RECURSIVE insertLoop(_, _, _, _, _)
\* The insertion loop that pushes a leaf down without giving it its new level.
insertLoop_keepsLevel(nodes, indexBits, toAdd, nodePointer, depth) ==
    LET n == nodes[nodePointer]
    IN  IF n.kind = "leaf"
        THEN IF n.index = toAdd.index
             THEN [nodes EXCEPT ![nodePointer] =
                        [toAdd EXCEPT !.parent = n.parent, !.level = n.level]]
             ELSE LET direction == GetNthBit(n.index, depth)
                      side == IF direction THEN <<1>> ELSE <<0>>
                      moved == [n EXCEPT !.parent = nodePointer]
                      split == ((nodePointer \o side) :> moved)
                               @@ newInteriorNode(nodePointer, n.parent, depth,
                                                  SubSeq(indexBits, 1, depth))
                  IN  insertLoop(split @@ nodes, indexBits, toAdd, nodePointer, depth)
        ELSE LET direction == indexBits[depth + 1]
                 side == IF direction THEN <<1>> ELSE <<0>>
                 cleared == IF direction
                            THEN [nodes EXCEPT ![nodePointer].rightHash = Nil]
                            ELSE [nodes EXCEPT ![nodePointer].leftHash = Nil]
                 child == nodePointer \o side
             IN  IF isEmpty(nodes[child])
                 THEN [cleared EXCEPT ![child] =
                          [toAdd EXCEPT !.level = depth + 1, !.parent = nodePointer]]
                 ELSE insertLoop(cleared, indexBits, toAdd, child, depth + 1)

insertLoop(nodes, indexBits, toAdd, nodePointer, depth) ==
    LET n == nodes[nodePointer]
    IN  IF n.kind = "leaf"
        THEN IF n.index = toAdd.index
             THEN [nodes EXCEPT ![nodePointer] =
                        [toAdd EXCEPT !.parent = n.parent, !.level = n.level]]
             ELSE LET direction == GetNthBit(n.index, depth)
                      side == IF direction THEN <<1>> ELSE <<0>>
                      moved == [n EXCEPT !.level = depth + 1, !.parent = nodePointer]
                      split == ((nodePointer \o side) :> moved)
                               @@ newInteriorNode(nodePointer, n.parent, depth,
                                                  SubSeq(indexBits, 1, depth))
                  IN  insertLoop(split @@ nodes, indexBits, toAdd, nodePointer, depth)
        ELSE LET direction == indexBits[depth + 1]
                 side == IF direction THEN <<1>> ELSE <<0>>
                 cleared == IF direction
                            THEN [nodes EXCEPT ![nodePointer].rightHash = Nil]
                            ELSE [nodes EXCEPT ![nodePointer].leftHash = Nil]
                 child == nodePointer \o side
             IN  IF isEmpty(nodes[child])
                 THEN [cleared EXCEPT ![child] =
                          [toAdd EXCEPT !.level = depth + 1, !.parent = nodePointer]]
                 ELSE insertLoop(cleared, indexBits, toAdd, child, depth + 1)

\* insertNode that leaves the tree as it is when the index already has a leaf.
insertNode_noReplace(m, index, toAdd) ==
    IF Get(m, index).Leaf.Index = index /\ ~Get(m, index).Leaf.IsEmpty
    THEN m
    ELSE [m EXCEPT !.nodes = insertLoop(m.nodes, ToBits(index), toAdd, <<>>, 0)]

insertNode(m, index, toAdd) ==
    [m EXCEPT !.nodes = insertLoop(m.nodes, ToBits(index), toAdd, <<>>, 0)]

\* Set inserting the leaf without the value it was given.
Set_dropsValue(m, index, key, value, salt) ==
    LET commitment == NewCommit(<<key, value>>, salt)
        toAdd == userLeafNode(NoParent, 0, key, <<>>, index, commitment)
    IN  insertNode(m, index, toAdd)

\* Set, with salt the outcome of RandSlice inside NewCommit.
Set(m, index, key, value, salt) ==
    LET commitment == NewCommit(<<key, value>>, salt)
        toAdd == userLeafNode(NoParent, 0, key, copyOfBs(value), index, commitment)
    IN  insertNode(m, index, toAdd)

recomputeHash(m) ==
    LET r == nodeHash(m.nodes, <<>>, m.nonce)
    IN  [m EXCEPT !.nodes = r.nodes, !.hash = r.h]

Clone(m) ==
    [nonce |-> copyOfBs(m.nonce),
     nodes |-> [p \in DOMAIN m.nodes |->
                  cloneNode(m.nodes[p],
                            IF p = <<>> THEN NoParent ELSE SubSeq(p, 1, Len(p) - 1))],
     hash |-> copyOfBs(m.hash)]

(***************************************************************************)
(* merkletree: SignedTreeRoot; directory: Config and the directory STR.    *)
(***************************************************************************)
versionBs == <<118>>

hashBs == <<66>>

NilConfig == [Version |-> Nil, HashID |-> Nil, VrfPublicKey |-> Nil, UpdateInterval |-> 0]

NewConfig(epDeadline, vrfPublicKey) ==
    [Version |-> versionBs, HashID |-> hashBs, VrfPublicKey |-> vrfPublicKey,
     UpdateInterval |-> epDeadline]

ConfigBytes(p) ==
    Bs(p.Version) \o Bs(p.HashID) \o Bs(p.VrfPublicKey) \o ULongToBytes(p.UpdateInterval)

SerializeInternal(str) ==
    ULongToBytes(str.Epoch)
    \o (IF str.Epoch > 0 THEN ULongToBytes(str.PreviousEpoch) ELSE <<>>)
    \o Bs(str.TreeHash) \o Bs(str.PreviousSTRHash)

STRBytes(str) == SerializeInternal(str) \o ConfigBytes(str.Ad)

\* NewSTR without the reset of the previous epoch at epoch 0.
NewSTR_noEpochZeroCase(key, ad, m, epoch, prevHash) ==
    LET str == [tree |-> m, TreeHash |-> m.hash, Epoch |-> epoch,
                PreviousEpoch |-> epoch - 1, PreviousSTRHash |-> prevHash,
                Signature |-> Nil, Ad |-> ad]
    IN  [str EXCEPT !.Signature = Sign(key, STRBytes(str))]

\* NewSTR signing the serialized STR without the associated data.
NewSTR_signWithoutAd(key, ad, m, epoch, prevHash) ==
    LET prevEpoch == IF epoch = 0 THEN 0 ELSE epoch - 1
        str == [tree |-> m, TreeHash |-> m.hash, Epoch |-> epoch,
                PreviousEpoch |-> prevEpoch, PreviousSTRHash |-> prevHash,
                Signature |-> Nil, Ad |-> ad]
    IN  [str EXCEPT !.Signature = Sign(key, SerializeInternal(str))]

\* NewSTR storing the previous epoch as the epoch of the STR.
NewSTR_epochOffByOne(key, ad, m, epoch, prevHash) ==
    LET prevEpoch == IF epoch = 0 THEN 0 ELSE epoch - 1
        str == [tree |-> m, TreeHash |-> m.hash, Epoch |-> prevEpoch,
                PreviousEpoch |-> prevEpoch, PreviousSTRHash |-> prevHash,
                Signature |-> Nil, Ad |-> ad]
    IN  [str EXCEPT !.Signature = Sign(key, STRBytes(str))]

NewSTR(key, ad, m, epoch, prevHash) ==
    LET prevEpoch == IF epoch = 0 THEN 0 ELSE epoch - 1
        str == [tree |-> m, TreeHash |-> m.hash, Epoch |-> epoch,
                PreviousEpoch |-> prevEpoch, PreviousSTRHash |-> prevHash,
                Signature |-> Nil, Ad |-> ad]
        bytesPreSig == STRBytes(str)
    IN  [str EXCEPT !.Signature = Sign(key, bytesPreSig)]

\* VerifyHashChain that compares the epochs only.
VerifyHashChain_epochsOnly(str, savedSTR) ==
    /\ str.PreviousEpoch = savedSTR.Epoch
    /\ str.Epoch = savedSTR.Epoch + 1

VerifyHashChain(str, savedSTR) ==
    LET hash == Digest(<<savedSTR.Signature>>)
    IN  /\ str.PreviousEpoch = savedSTR.Epoch
        /\ str.Epoch = savedSTR.Epoch + 1
        /\ hash = Bs(str.PreviousSTRHash)

\* The directory's view of an STR; the nil STR has Epoch -1.
NilDirSTR ==
    [TreeHash |-> Nil, Epoch |-> -1, PreviousEpoch |-> -1, PreviousSTRHash |-> Nil,
     Signature |-> Nil, Ad |-> NilConfig, Policies |-> NilConfig]

NewDirSTR(str) ==
    [TreeHash |-> str.TreeHash, Epoch |-> str.Epoch, PreviousEpoch |-> str.PreviousEpoch,
     PreviousSTRHash |-> str.PreviousSTRHash, Signature |-> str.Signature,
     Ad |-> str.Ad, Policies |-> str.Ad]

DirSTRBytes(str) == SerializeInternal(str) \o ConfigBytes(str.Policies)

(***************************************************************************)
(* The state: the PAD (tree, snapshots, ad, capacity), the directory       *)
(* (policies, tbs), the response of the last operation, and the history    *)
(* of what was issued.                                                     *)
(***************************************************************************)
VARIABLES
    tree,        \* pad: the current (pending) tree
    snapshots,   \* pad: epoch -> STR (with its tree), the retained epochs
    ad,          \* pad: the associated data of the PAD
    capacity,    \* pad: the number of snapshots kept
    policies,    \* directory: d.policies
    tbs,         \* directory: name -> temporary binding
    resp,        \* the last operation, its arguments and its response
    issued,      \* history: issued[e + 1] is the STR issued for epoch e
    registered,  \* history: name -> epoch, value and TB of its successful Register
    heap,        \* merkle trees used directly: address -> the nodes under a root
    trees,       \* merkle trees used directly: "t", "c" -> nonce, root address, hash
    hist,        \* history: "t", "c" -> the Sets applied to the tree, in order
    procs        \* concurrent callers: process -> its position and local variables

vars ==
    <<tree, snapshots, ad, capacity, policies, tbs, resp, issued, registered,
      heap, trees, hist, procs>>

\* The state of the directory and its PAD.
dirVars == <<tree, snapshots, ad, capacity, policies, tbs, issued, registered>>

\* The merkle trees used directly.
treeVars == <<heap, trees, hist>>

RECURSIVE SetMax(_)
SetMax(S) ==
    LET x == CHOOSE e \in S : TRUE
    IN  IF S = {x} THEN x
        ELSE LET m == SetMax(S \ {x}) IN IF x > m THEN x ELSE m

RECURSIVE SetMin(_)
SetMin(S) ==
    LET x == CHOOSE e \in S : TRUE
    IN  IF S = {x} THEN x
        ELSE LET m == SetMin(S \ {x}) IN IF x < m THEN x ELSE m

(***************************************************************************)
(* merkletree: PAD.                                                        *)
(***************************************************************************)
PadLatestSTR == snapshots[SetMax(DOMAIN snapshots)]

PadHasSTR(epoch) == epoch \in DOMAIN snapshots

PadGetSTR(epoch) == snapshots[epoch]

PadIndex(name) == VrfIndex(name)

PadSign(prevSig, index, value) == Sign(SignKey, Concat(<<prevSig, index, value>>))

\* Lookup that walks the tree of the latest snapshot.
PadLookup_latestSnapshot(name) == Get(PadLatestSTR.tree, PadIndex(name))

PadLookup(name) == Get(tree, PadIndex(name))

PadLookupInEpoch(name, epoch) == Get(snapshots[epoch].tree, PadIndex(name))

\* The state of a new PAD: the epoch-0 snapshot and the current tree.
NewPAD(newAd, cap, nonce) ==
    LET m == recomputeHash(NewMerkleTree(nonce))
        str == NewSTR(SignKey, newAd, m, 0, <<>>)
    IN  [tree |-> Clone(m), snapshots |-> (0 :> str), ad |-> newAd, capacity |-> cap]

\* The PAD after Set(name, value); salt is the fresh salt of the commitment.
PadSetTree(name, value, salt) == Set(tree, PadIndex(name), name, value, salt)

\* Update that never discards a snapshot.
PadUpdated_noEviction(newAd) ==
    LET frozen == recomputeHash(tree)
        latest == PadLatestSTR
        useAd == IF newAd = NilConfig THEN ad ELSE newAd
        str == NewSTR(SignKey, useAd, frozen, latest.Epoch + 1,
                      Digest(<<latest.Signature>>))
        all == ((latest.Epoch + 1) :> str) @@ snapshots
    IN  [tree |-> Clone(frozen), snapshots |-> all, ad |-> useAd, str |-> str]

\* Update that keeps the frozen tree as the tree of every retained snapshot.
PadUpdated_sharesTree(newAd) ==
    LET frozen == recomputeHash(tree)
        latest == PadLatestSTR
        useAd == IF newAd = NilConfig THEN ad ELSE newAd
        str == NewSTR(SignKey, useAd, frozen, latest.Epoch + 1,
                      Digest(<<latest.Signature>>))
        all == ((latest.Epoch + 1) :> str) @@ snapshots
        kept == IF Cardinality(DOMAIN all) > capacity
                THEN DOMAIN all \ {SetMin(DOMAIN all)}
                ELSE DOMAIN all
    IN  [tree |-> Clone(frozen),
         snapshots |-> [e \in kept |-> [all[e] EXCEPT !.tree = frozen]],
         ad |-> useAd, str |-> str]

\* Update that signs with the associated data the PAD already has.
PadUpdated_keepsOldAd(newAd) ==
    LET frozen == recomputeHash(tree)
        latest == PadLatestSTR
        str == NewSTR(SignKey, ad, frozen, latest.Epoch + 1,
                      Digest(<<latest.Signature>>))
        all == ((latest.Epoch + 1) :> str) @@ snapshots
        kept == IF Cardinality(DOMAIN all) > capacity
                THEN DOMAIN all \ {SetMin(DOMAIN all)}
                ELSE DOMAIN all
    IN  [tree |-> Clone(frozen), snapshots |-> [e \in kept |-> all[e]], ad |-> ad,
         str |-> str]

\* Update that signs the hash the current tree has, without recomputing it.
PadUpdated_noRecomputeHash(newAd) ==
    LET frozen == tree
        latest == PadLatestSTR
        useAd == IF newAd = NilConfig THEN ad ELSE newAd
        str == NewSTR(SignKey, useAd, frozen, latest.Epoch + 1,
                      Digest(<<latest.Signature>>))
        all == ((latest.Epoch + 1) :> str) @@ snapshots
        kept == IF Cardinality(DOMAIN all) > capacity
                THEN DOMAIN all \ {SetMin(DOMAIN all)}
                ELSE DOMAIN all
    IN  [tree |-> Clone(frozen), snapshots |-> [e \in kept |-> all[e]], ad |-> useAd,
         str |-> str]

\* The PAD after Update(newAd).
PadUpdated(newAd) ==
    LET frozen == recomputeHash(tree)
        latest == PadLatestSTR
        useAd == IF newAd = NilConfig THEN ad ELSE newAd
        str == NewSTR(SignKey, useAd, frozen, latest.Epoch + 1,
                      Digest(<<latest.Signature>>))
        all == ((latest.Epoch + 1) :> str) @@ snapshots
        kept == IF Cardinality(DOMAIN all) > capacity
                THEN DOMAIN all \ {SetMin(DOMAIN all)}
                ELSE DOMAIN all
    IN  [tree |-> Clone(frozen), snapshots |-> [e \in kept |-> all[e]], ad |-> useAd,
         str |-> str]

(***************************************************************************)
(* directory: temporary bindings, responses, Tree.                         *)
(***************************************************************************)
NilTB == [Index |-> Nil, Value |-> Nil, Signature |-> Nil]

TBBytes(tb, strSig) == Concat(<<strSig, tb.Index, tb.Value>>)

NilAP ==
    [TreeNonce |-> Nil, LookupIndex |-> Nil, PrunedTree |-> <<>>,
     Leaf |-> ProofNode(0, Nil, Nil, FALSE, NoCommit)]

\* A response: the operation and its arguments, then what it returned.
Response(op, name, value, startEp, endEp, err, ap, str, tb, aps, strs) ==
    [op |-> op, name |-> name, value |-> value, startEp |-> startEp, endEp |-> endEp,
     err |-> err, ap |-> ap, str |-> str, tb |-> tb, aps |-> aps, strs |-> strs]

NoResponse(op) ==
    Response(op, <<>>, <<>>, 0, 0, "none", NilAP, NilDirSTR, NilTB, <<>>, <<>>)

LatestSTR == NewDirSTR(PadLatestSTR)

NewTB(name, key) ==
    LET index == PadIndex(name)
    IN  [Index |-> index, Value |-> key,
         Signature |-> PadSign(LatestSTR.Signature, index, key)]

\* d.tbs[name]: the nil TB when the map has no entry.
TbOf(name) == IF name \in DOMAIN tbs THEN tbs[name] ELSE NilTB

\* Register without the test for a name that is already in the tree.
RegisterResult_noExistenceCheck(name, key, salt) ==
    LET ap == PadLookup(name)
        tb == TbOf(name)
        newTb == NewTB(name, key)
        Out(err, a, t, newTree, newTbs) ==
            [resp |-> Response("Register", name, key, 0, 0, err, a,
                               IF a = NilAP THEN NilDirSTR ELSE LatestSTR, t, <<>>, <<>>),
             tree |-> newTree, tbs |-> newTbs]
    IN  IF Len(name) <= 0 \/ Len(key) <= 0
        THEN Out("ErrMalformedMessage", NilAP, NilTB, tree, tbs)
        ELSE IF tb # NilTB
        THEN Out("NameExisted", ap, tb, tree, tbs)
        ELSE Out("Success", ap, newTb, PadSetTree(name, key, salt),
                 (name :> newTb) @@ tbs)

\* Register that tests the name but not the key of the request.
RegisterResult_acceptsEmptyKey(name, key, salt) ==
    LET ap == PadLookup(name)
        tb == TbOf(name)
        newTb == NewTB(name, key)
        Out(err, a, t, newTree, newTbs) ==
            [resp |-> Response("Register", name, key, 0, 0, err, a,
                               IF a = NilAP THEN NilDirSTR ELSE LatestSTR, t, <<>>, <<>>),
             tree |-> newTree, tbs |-> newTbs]
    IN  IF Len(name) <= 0
        THEN Out("ErrMalformedMessage", NilAP, NilTB, tree, tbs)
        ELSE IF ap.LookupIndex = ap.Leaf.Index
        THEN Out("NameExisted", ap, NilTB, tree, tbs)
        ELSE IF tb # NilTB
        THEN Out("NameExisted", ap, tb, tree, tbs)
        ELSE Out("Success", ap, newTb, PadSetTree(name, key, salt),
                 (name :> newTb) @@ tbs)

\* Register: the response, and the tree and TB map it leaves.
RegisterResult(name, key, salt) ==
    LET ap == PadLookup(name)
        tb == TbOf(name)
        newTb == NewTB(name, key)
        Out(err, a, t, newTree, newTbs) ==
            [resp |-> Response("Register", name, key, 0, 0, err, a,
                               IF a = NilAP THEN NilDirSTR ELSE LatestSTR, t, <<>>, <<>>),
             tree |-> newTree, tbs |-> newTbs]
    IN  IF Len(name) <= 0 \/ Len(key) <= 0
        THEN Out("ErrMalformedMessage", NilAP, NilTB, tree, tbs)
        ELSE IF ap.LookupIndex = ap.Leaf.Index
        THEN Out("NameExisted", ap, NilTB, tree, tbs)
        ELSE IF tb # NilTB
        THEN Out("NameExisted", ap, tb, tree, tbs)
        ELSE Out("Success", ap, newTb, PadSetTree(name, key, salt),
                 (name :> newTb) @@ tbs)

\* KeyLookup answering NameNotFound whenever the TB map has no TB for the name.
KeyLookupResult_ignoresInclusion(name) ==
    LET ap == PadLookup(name)
        tb == TbOf(name)
        Out(err, a, s, t) == Response("KeyLookup", name, <<>>, 0, 0, err, a, s, t, <<>>, <<>>)
    IN  IF Len(name) <= 0
        THEN Out("ErrMalformedMessage", NilAP, NilDirSTR, NilTB)
        ELSE IF tb # NilTB
        THEN Out("Success", ap, LatestSTR, tb)
        ELSE Out("NameNotFound", ap, LatestSTR, NilTB)

KeyLookupResult(name) ==
    LET ap == PadLookup(name)
        tb == TbOf(name)
        Out(err, a, s, t) == Response("KeyLookup", name, <<>>, 0, 0, err, a, s, t, <<>>, <<>>)
    IN  IF Len(name) <= 0
        THEN Out("ErrMalformedMessage", NilAP, NilDirSTR, NilTB)
        ELSE IF ap.LookupIndex = ap.Leaf.Index
        THEN Out("Success", ap, LatestSTR, NilTB)
        ELSE IF tb # NilTB
        THEN Out("Success", ap, LatestSTR, tb)
        ELSE Out("NameNotFound", ap, LatestSTR, NilTB)

KeyLookupInEpochResult(name, epoch) ==
    LET startEp == epoch
        endEp == LatestSTR.Epoch
        ap == PadLookupInEpoch(name, startEp)
        strs == [i \in 1..(endEp - startEp + 1) |-> NewDirSTR(PadGetSTR(startEp + i - 1))]
        Out(err, a, ss) ==
            Response("KeyLookupInEpoch", name, <<>>, epoch, 0, err, a, NilDirSTR, NilTB,
                     <<>>, ss)
    IN  IF Len(name) <= 0 \/ epoch > LatestSTR.Epoch
        THEN Out("ErrMalformedMessage", NilAP, <<>>)
        ELSE IF ~PadHasSTR(startEp)
        THEN Out("ErrDirectory", NilAP, <<>>)
        ELSE IF ap.LookupIndex = ap.Leaf.Index
        THEN Out("Success", ap, strs)
        ELSE Out("NameNotFound", ap, strs)

\* Monitor without the test that the start epoch is not above the end epoch.
MonitorResult_noRangeCheck(name, startEpoch, endEpoch) ==
    LET startEp == startEpoch
        endEp == IF endEpoch > LatestSTR.Epoch THEN LatestSTR.Epoch ELSE endEpoch
        n == endEp - startEp + 1
        aps == [i \in 1..n |-> PadLookupInEpoch(name, startEp + i - 1)]
        strs == [i \in 1..n |-> NewDirSTR(PadGetSTR(startEp + i - 1))]
        Out(err, as, ss) ==
            Response("Monitor", name, <<>>, startEpoch, endEpoch, err, NilAP, NilDirSTR,
                     NilTB, as, ss)
    IN  IF Len(name) <= 0 \/ startEpoch > LatestSTR.Epoch
        THEN Out("ErrMalformedMessage", <<>>, <<>>)
        ELSE IF \E ep \in startEp..endEp : ~PadHasSTR(ep)
        THEN Out("ErrDirectory", <<>>, <<>>)
        ELSE Out("Success", aps, strs)

MonitorResult(name, startEpoch, endEpoch) ==
    LET startEp == startEpoch
        endEp == IF endEpoch > LatestSTR.Epoch THEN LatestSTR.Epoch ELSE endEpoch
        n == endEp - startEp + 1
        aps == [i \in 1..n |-> PadLookupInEpoch(name, startEp + i - 1)]
        strs == [i \in 1..n |-> NewDirSTR(PadGetSTR(startEp + i - 1))]
        Out(err, as, ss) ==
            Response("Monitor", name, <<>>, startEpoch, endEpoch, err, NilAP, NilDirSTR,
                     NilTB, as, ss)
    IN  IF Len(name) <= 0 \/ startEpoch > LatestSTR.Epoch \/ startEpoch > endEpoch
        THEN Out("ErrMalformedMessage", <<>>, <<>>)
        ELSE IF \E ep \in startEp..endEp : ~PadHasSTR(ep)
        THEN Out("ErrDirectory", <<>>, <<>>)
        ELSE Out("Success", aps, strs)

\* GetSTRHistory; NewDirSTR of the nil STR of an epoch that is not retained panics.
GetSTRHistoryResult(startEpoch, endEpoch) ==
    LET endEp == IF endEpoch > LatestSTR.Epoch THEN LatestSTR.Epoch ELSE endEpoch
        strs == [i \in 1..(endEp - startEpoch + 1) |->
                    NewDirSTR(PadGetSTR(startEpoch + i - 1))]
        Out(err, ss) ==
            Response("GetSTRHistory", <<>>, <<>>, startEpoch, endEpoch, err, NilAP,
                     NilDirSTR, NilTB, <<>>, ss)
    IN  IF startEpoch > LatestSTR.Epoch \/ endEpoch < startEpoch
        THEN Out("ErrMalformedMessage", <<>>)
        ELSE IF \E ep \in startEpoch..endEp : ~PadHasSTR(ep)
        THEN Out("panic", <<>>)
        ELSE Out("Success", strs)

(***************************************************************************)
(* The initial state: directory.New with an update interval of 1.          *)
(***************************************************************************)
Init ==
    \E cap \in 1..MaxCapacity :
        LET p == NewConfig(1, VrfPublicKey)
            pad == NewPAD(p, cap, <<7>>)
        IN  /\ tree = pad.tree
            /\ snapshots = pad.snapshots
            /\ ad = pad.ad
            /\ capacity = cap
            /\ policies = p
            /\ tbs = <<>>
            /\ resp = NoResponse("New")
            /\ issued = <<pad.snapshots[0]>>
            /\ registered = <<>>
            /\ heap = <<>>
            /\ trees = <<>>
            /\ hist = <<>>
            /\ procs = <<>>

(***************************************************************************)
(* The operations of the directory.                                        *)
(***************************************************************************)
Register ==
    \E name \in Names, key \in Values, salt \in DirSalts :
        LET r == RegisterResult(name, key, salt)
        IN  /\ resp' = r.resp
            /\ tree' = r.tree
            /\ tbs' = r.tbs
            /\ registered' = IF r.resp.err = "Success"
                             THEN (name :> [epoch |-> LatestSTR.Epoch, value |-> key,
                                            tb |-> r.resp.tb])
                                  @@ registered
                             ELSE registered
            /\ UNCHANGED <<snapshots, ad, capacity, policies, issued>>
            /\ UNCHANGED <<heap, trees, hist, procs>>

KeyLookup ==
    \E name \in Names :
        /\ resp' = KeyLookupResult(name)
        /\ UNCHANGED <<tree, snapshots, ad, capacity, policies, tbs, issued, registered>>
        /\ UNCHANGED <<heap, trees, hist, procs>>

KeyLookupInEpoch ==
    \E name \in Names, epoch \in 0..(LatestSTR.Epoch + 1) :
        /\ resp' = KeyLookupInEpochResult(name, epoch)
        /\ UNCHANGED <<tree, snapshots, ad, capacity, policies, tbs, issued, registered>>
        /\ UNCHANGED <<heap, trees, hist, procs>>

Monitor ==
    \E name \in Names, startEpoch \in 0..(LatestSTR.Epoch + 1),
       endEpoch \in 0..(LatestSTR.Epoch + 1) :
        /\ resp' = MonitorResult(name, startEpoch, endEpoch)
        /\ UNCHANGED <<tree, snapshots, ad, capacity, policies, tbs, issued, registered>>
        /\ UNCHANGED <<heap, trees, hist, procs>>

GetSTRHistory ==
    \E startEpoch \in 0..(LatestSTR.Epoch + 1), endEpoch \in 0..(LatestSTR.Epoch + 1) :
        /\ resp' = GetSTRHistoryResult(startEpoch, endEpoch)
        /\ UNCHANGED <<tree, snapshots, ad, capacity, policies, tbs, issued, registered>>
        /\ UNCHANGED <<heap, trees, hist, procs>>

\* Tree.Update: pad.Update(d.policies), then every TB is deleted.
\* Update that leaves the temporary bindings in the map.
Update_keepsTBs ==
    /\ LatestSTR.Epoch < MaxEpoch
    /\ LET u == PadUpdated(policies)
       IN  /\ tree' = u.tree
           /\ snapshots' = u.snapshots
           /\ ad' = u.ad
           /\ issued' = Append(issued, u.str)
    /\ resp' = NoResponse("Update")
    /\ UNCHANGED <<capacity, policies, registered, tbs>>
    /\ UNCHANGED <<heap, trees, hist, procs>>

Update ==
    /\ LatestSTR.Epoch < MaxEpoch
    /\ LET u == PadUpdated(policies)
       IN  /\ tree' = u.tree
           /\ snapshots' = u.snapshots
           /\ ad' = u.ad
           /\ issued' = Append(issued, u.str)
    /\ tbs' = <<>>
    /\ resp' = NoResponse("Update")
    /\ UNCHANGED <<capacity, policies, registered>>
    /\ UNCHANGED <<heap, trees, hist, procs>>

SetPolicies ==
    \E epDeadline \in Intervals :
        /\ policies' = NewConfig(epDeadline, policies.VrfPublicKey)
        /\ resp' = NoResponse("SetPolicies")
        /\ UNCHANGED <<tree, snapshots, ad, capacity, tbs, issued, registered>>
        /\ UNCHANGED <<heap, trees, hist, procs>>

Next ==
    \/ Register
    \/ KeyLookup
    \/ KeyLookupInEpoch
    \/ Monitor
    \/ GetSTRHistory
    \/ Update

Spec == Init /\ [][Next]_vars

NextPolicies == Register \/ KeyLookup \/ Update \/ SetPolicies

SpecPolicies == Init /\ [][NextPolicies]_vars

(***************************************************************************)
(* The operations of the PAD, used directly.                               *)
(***************************************************************************)
PadSet ==
    \E name \in Names \ {<<>>}, value \in Values \ {<<>>}, salt \in DirSalts :
        /\ tree' = PadSetTree(name, value, salt)
        /\ resp' = Response("Set", name, value, 0, 0, "none", NilAP, NilDirSTR, NilTB,
                            <<>>, <<>>)
        /\ UNCHANGED <<snapshots, ad, capacity, policies, tbs, issued, registered>>
        /\ UNCHANGED <<heap, trees, hist, procs>>

PadUpdate ==
    \E newAd \in {NilConfig} \cup {NewConfig(i, VrfPublicKey) : i \in Intervals} :
        /\ PadLatestSTR.Epoch < MaxEpoch
        /\ LET u == PadUpdated(newAd)
           IN  /\ tree' = u.tree
               /\ snapshots' = u.snapshots
               /\ ad' = u.ad
               /\ issued' = Append(issued, u.str)
        /\ resp' = [newAd |-> newAd] @@ NoResponse("Update")
        /\ UNCHANGED <<capacity, policies, tbs, registered>>
        /\ UNCHANGED <<heap, trees, hist, procs>>

NextPAD == PadSet \/ PadUpdate

SpecPAD == Init /\ [][NextPAD]_vars

(***************************************************************************)
(* Verification of an authentication path (the client's side).             *)
(***************************************************************************)
\* The hash of the terminal leaf of a path, from its descriptor.
authPathLeafHash(ap) ==
    IF ap.Leaf.IsEmpty
    THEN Digest(<<<<EmptyBranchIdentifier>>, ap.TreeNonce, ap.Leaf.Index,
                  UInt32ToBytes(ap.Leaf.Level)>>)
    ELSE Digest(<<<<LeafIdentifier>>, ap.TreeNonce, ap.Leaf.Index,
                  UInt32ToBytes(ap.Leaf.Level), ap.Leaf.Commitment.Hash>>)

RECURSIVE authPathFold(_, _, _)
authPathFold(ap, hash, depth) ==
    IF depth = 0 THEN hash
    ELSE LET sibling == ap.PrunedTree[depth]
             up == IF GetNthBit(ap.LookupIndex, depth - 1)
                   THEN Digest(<<sibling, hash>>)
                   ELSE Digest(<<hash, sibling>>)
         IN  authPathFold(ap, up, depth - 1)

\* The root hash reconstructed from a path.
authPathHash(ap) == authPathFold(ap, authPathLeafHash(ap), ap.Leaf.Level)

ProofOfInclusion(ap) == ap.LookupIndex = ap.Leaf.Index

ProofOfAbsence(ap) == ap # NilAP /\ ap.LookupIndex # ap.Leaf.Index

\* The leaves of a tree, as the set of paths that hold a user leaf node.
LeafPaths(m) == {p \in DOMAIN m.nodes : m.nodes[p].kind = "leaf"}

(***************************************************************************)
(* merkletree used directly: two trees, t and c, each from NewMerkleTree   *)
(* with a nonce of its own.  A tree is its nonce, the address of the nodes *)
(* under its root, and its hash; Set and recomputeHash write to the nodes  *)
(* at that address.                                                        *)
(***************************************************************************)
\* The tree tr as a value: its nonce, the nodes under its root, its hash.
TreeOf(tr) ==
    [nonce |-> trees[tr].nonce, nodes |-> heap[trees[tr].root], hash |-> trees[tr].hash]

\* Clone that copies the tree but keeps the root pointer of the original.
CloneAt_sharesRoot(tr, addr) ==
    [tree |-> [nonce |-> copyOfBs(trees[tr].nonce), root |-> trees[tr].root,
               hash |-> copyOfBs(trees[tr].hash)],
     nodes |-> Clone(TreeOf(tr)).nodes]

\* tr.Clone(), with addr the address of the nodes that root.clone(nil) allocates.
CloneAt(tr, addr) ==
    LET m == Clone(TreeOf(tr))
    IN  [tree |-> [nonce |-> m.nonce, root |-> addr, hash |-> m.hash], nodes |-> m.nodes]

InitTree ==
    /\ heap = <<NewMerkleTree(<<7>>).nodes, NewMerkleTree(<<8>>).nodes>>
    /\ trees = [t |-> [nonce |-> <<7>>, root |-> 1, hash |-> NewMerkleTree(<<7>>).hash],
                c |-> [nonce |-> <<8>>, root |-> 2, hash |-> NewMerkleTree(<<8>>).hash]]
    /\ hist = [t |-> <<>>, c |-> <<>>, n |-> 0]
    /\ resp = [op |-> "NewMerkleTree", tr |-> "t"]
    /\ procs = <<>>
    /\ tree = <<>> /\ snapshots = <<>> /\ ad = NilConfig /\ capacity = 0
    /\ policies = NilConfig /\ tbs = <<>> /\ issued = <<>> /\ registered = <<>>

\* tr.Set(index, key, value), with salt the outcome of RandSlice in NewCommit.
TreeSetOn(tr) ==
    \E index \in Indices, key \in TreeKeys, value \in TreeValues, salt \in Salts :
        /\ heap' = [heap EXCEPT ![trees[tr].root] =
                                   Set(TreeOf(tr), index, key, value, salt).nodes]
        /\ hist' = [hist EXCEPT ![tr] = Append(@, <<index, key, value>>), !.n = @ + 1]
        /\ resp' = [op |-> "Set", tr |-> tr]
        /\ UNCHANGED <<trees, procs>>
        /\ UNCHANGED dirVars

\* tr.recomputeHash().
TreeRecomputeHashOn(tr) ==
    LET m == recomputeHash(TreeOf(tr))
    IN  /\ heap' = [heap EXCEPT ![trees[tr].root] = m.nodes]
        /\ trees' = [trees EXCEPT ![tr].hash = m.hash]
        /\ resp' = [op |-> "recomputeHash", tr |-> tr]
        /\ UNCHANGED <<hist, procs>>
        /\ UNCHANGED dirVars

\* One tree, t.
TreeSet == hist.n < MaxSets /\ TreeSetOn("t")

TreeRecomputeHash == TreeRecomputeHashOn("t")

NextTree == TreeSet \/ TreeRecomputeHash

SpecTree == InitTree /\ [][NextTree]_vars

\* One tree, t, and the paths that Get returns: t.Get(lookupIndex) reads the
\* nodes and writes to none of them.
TreeGet ==
    \E lookupIndex \in Indices :
        /\ resp' = [op |-> "Get", tr |-> "t", ap |-> Get(TreeOf("t"), lookupIndex)]
        /\ UNCHANGED <<heap, trees, hist, procs>>
        /\ UNCHANGED dirVars

NextGet == TreeSet \/ TreeRecomputeHash \/ TreeGet

SpecGet == InitTree /\ [][NextGet]_vars

\* A tree and its clone: c = t.Clone(); the nodes of the clone are allocated at
\* address 2, which nothing but the previous c refers to.
TreeClone ==
    LET r == CloneAt("t", 2)
    IN  /\ heap' = [heap EXCEPT ![2] = r.nodes]
        /\ trees' = [trees EXCEPT !["c"] = r.tree]
        /\ hist' = [hist EXCEPT !["c"] = hist["t"]]
        /\ resp' = [op |-> "Clone", tr |-> "c"]
        /\ UNCHANGED procs
        /\ UNCHANGED dirVars

CloneSet == hist.n < MaxCloneSets /\ \E tr \in {"t", "c"} : TreeSetOn(tr)

CloneRecomputeHash == \E tr \in {"t", "c"} : TreeRecomputeHashOn(tr)

NextClone == CloneSet \/ CloneRecomputeHash \/ TreeClone

SpecClone == InitTree /\ [][NextClone]_vars

(***************************************************************************)
(* crypto/hashed used directly: a commitment is made, then verified        *)
(* against value lists.                                                    *)
(***************************************************************************)
InitCommit ==
    /\ resp = [op |-> "none"]
    /\ heap = <<>> /\ trees = <<>> /\ hist = <<>> /\ procs = <<>>
    /\ tree = <<>> /\ snapshots = <<>> /\ ad = NilConfig /\ capacity = 0
    /\ policies = NilConfig /\ tbs = <<>> /\ issued = <<>> /\ registered = <<>>

\* c = NewCommit(values...), with salt the outcome of RandSlice.
CommitNew ==
    \E values \in ValueLists, salt \in Salts :
        /\ resp' = [op |-> "NewCommit", values |-> values,
                    commit |-> NewCommit(values, salt)]
        /\ UNCHANGED <<heap, trees, hist, procs>>
        /\ UNCHANGED dirVars

\* c.Verify(given...) for the commitment made last.
CommitVerifyGiven ==
    \E given \in ValueLists :
        /\ resp.op \in {"NewCommit", "Verify"}
        /\ resp' = [op |-> "Verify", values |-> resp.values, commit |-> resp.commit,
                    given |-> given, ok |-> CommitVerify(resp.commit, given)]
        /\ UNCHANGED <<heap, trees, hist, procs>>
        /\ UNCHANGED dirVars

NextCommit == CommitNew \/ CommitVerifyGiven

SpecCommit == InitCommit /\ [][NextCommit]_vars

(***************************************************************************)
(* directory: Register called by several callers at once.  Tree.Register   *)
(* takes no lock; a caller first checks (the test of the request, the      *)
(* lookup and the test of the TB map), then inserts (NewTB, Set and the    *)
(* store into the TB map), and other callers may run in between.           *)
(***************************************************************************)
IdleCaller ==
    [pc |-> "idle", name |-> <<>>, key |-> <<>>, ap |-> NilAP, err |-> "none", tb |-> NilTB]

InitRegister ==
    LET p == NewConfig(1, VrfPublicKey)
        pad == NewPAD(p, 1, <<7>>)
    IN  /\ tree = pad.tree
        /\ snapshots = pad.snapshots
        /\ ad = pad.ad
        /\ capacity = 1
        /\ policies = p
        /\ tbs = <<>>
        /\ resp = NoResponse("New")
        /\ issued = <<pad.snapshots[0]>>
        /\ registered = <<>>
        /\ heap = <<>> /\ trees = <<>> /\ hist = <<>>
        /\ procs = [c \in Callers |-> IdleCaller]

\* A caller enters Register with a request.
RegisterCall ==
    \E c \in Callers, name \in Names, key \in Values :
        /\ procs[c].pc = "idle"
        /\ procs' = [procs EXCEPT ![c] = [IdleCaller EXCEPT !.pc = "check", !.name = name,
                                                             !.key = key]]
        /\ UNCHANGED <<resp, heap, trees, hist>>
        /\ UNCHANGED dirVars

\* The check of Register: it returns, or goes on to insert.
RegisterCheck ==
    \E c \in Callers :
        LET name == procs[c].name
            ap == PadLookup(name)
            tb == TbOf(name)
            Return(err, a, t) == [procs[c] EXCEPT !.pc = "done", !.err = err, !.ap = a,
                                                  !.tb = t]
        IN  /\ procs[c].pc = "check"
            /\ procs' = [procs EXCEPT ![c] =
                            IF Len(name) <= 0 \/ Len(procs[c].key) <= 0
                            THEN Return("ErrMalformedMessage", NilAP, NilTB)
                            ELSE IF ap.LookupIndex = ap.Leaf.Index
                            THEN Return("NameExisted", ap, NilTB)
                            ELSE IF tb # NilTB
                            THEN Return("NameExisted", ap, tb)
                            ELSE [procs[c] EXCEPT !.pc = "insert", !.ap = ap]]
            /\ UNCHANGED <<resp, heap, trees, hist>>
            /\ UNCHANGED dirVars

\* The insert of Register, and its return.
RegisterInsert ==
    \E c \in Callers, salt \in DirSalts :
        LET name == procs[c].name
            tb == NewTB(name, procs[c].key)
        IN  /\ procs[c].pc = "insert"
            /\ tree' = PadSetTree(name, procs[c].key, salt)
            /\ tbs' = (name :> tb) @@ tbs
            /\ procs' = [procs EXCEPT ![c].pc = "done", ![c].err = "Success", ![c].tb = tb]
            /\ UNCHANGED <<snapshots, ad, capacity, policies, issued, registered>>
            /\ UNCHANGED <<resp, heap, trees, hist>>

NextRegister == RegisterCall \/ RegisterCheck \/ RegisterInsert

SpecRegister == InitRegister /\ [][NextRegister]_vars

(***************************************************************************)
(* merkletree: VerifyHashChain used directly, on any two STRs, and again   *)
(* after the signature of the saved STR was changed.                       *)
(***************************************************************************)
\* The signatures and the STRs that VerifyHashChain is given when it is used
\* directly: any epochs up to MaxEpoch, any of the signatures, and as hash of the
\* previous STR nil, no bytes or the digest of any of the signatures.
ChainSignatures == {Nil, <<>>, <<21>>, <<22>>}

ChainSTRs ==
    [tree : {Nil}, TreeHash : {<<>>}, Epoch : 0..MaxEpoch, PreviousEpoch : 0..MaxEpoch,
     PreviousSTRHash : {Nil, <<>>} \cup {Digest(<<sig>>) : sig \in ChainSignatures},
     Signature : ChainSignatures, Ad : {NilConfig}]

InitChain ==
    /\ \E a \in ChainSTRs, b \in ChainSTRs :
          resp = [op |-> "none", a |-> a, b |-> b, was |-> a, ok |-> FALSE]
    /\ heap = <<>> /\ trees = <<>> /\ hist = <<>> /\ procs = <<>>
    /\ tree = <<>> /\ snapshots = <<>> /\ ad = NilConfig /\ capacity = 0
    /\ policies = NilConfig /\ tbs = <<>> /\ issued = <<>> /\ registered = <<>>

\* ok = b.VerifyHashChain(a).
ChainVerify ==
    /\ resp.op = "none"
    /\ resp' = [resp EXCEPT !.op = "VerifyHashChain", !.ok = VerifyHashChain(resp.b, resp.a)]
    /\ UNCHANGED <<heap, trees, hist, procs>>
    /\ UNCHANGED dirVars

\* The signature of a is changed to other bytes, then ok = b.VerifyHashChain(a).
ChainVerifyTampered ==
    \E sig \in ChainSignatures :
        /\ resp.op = "VerifyHashChain"
        /\ Bs(sig) # Bs(resp.a.Signature)
        /\ LET a == [resp.a EXCEPT !.Signature = sig]
           IN  resp' = [op |-> "VerifyTampered", a |-> a, b |-> resp.b, was |-> resp.a,
                        ok |-> VerifyHashChain(resp.b, a)]
        /\ UNCHANGED <<heap, trees, hist, procs>>
        /\ UNCHANGED dirVars

NextChain == ChainVerify \/ ChainVerifyTampered

SpecChain == InitChain /\ [][NextChain]_vars

(***************************************************************************)
(* merkletree: Set with the insertion loop of insertNode taken one turn at *)
(* a time.  Reading a bit beyond the bits of an index is an index out of   *)
(* range in indexBits[depth] or in GetNthBit, and panics.                  *)
(***************************************************************************)
IdleWriter ==
    [pc |-> "idle", index |-> Nil, toAdd |-> emptyNode(NoParent, 0, Nil),
     nodePointer |-> <<>>, depth |-> 0, turns |-> 0, before |-> NewMerkleTree(Nil)]

InitInsert ==
    /\ heap = <<NewMerkleTree(<<7>>).nodes>>
    /\ trees = [t |-> [nonce |-> <<7>>, root |-> 1, hash |-> NewMerkleTree(<<7>>).hash]]
    /\ hist = [t |-> <<>>, n |-> 0]
    /\ resp = [op |-> "NewMerkleTree", tr |-> "t"]
    /\ procs = [writer |-> IdleWriter]
    /\ tree = <<>> /\ snapshots = <<>> /\ ad = NilConfig /\ capacity = 0
    /\ policies = NilConfig /\ tbs = <<>> /\ issued = <<>> /\ registered = <<>>

\* t.Set(index, key, value) up to the insertion loop, with salt the outcome of
\* RandSlice in NewCommit.
InsertEnter ==
    \E index \in Indices, key \in TreeKeys, value \in TreeValues, salt \in DirSalts :
        /\ hist.n < MaxSets
        /\ procs["writer"].pc \in {"idle", "done"}
        /\ procs' = [procs EXCEPT !["writer"] =
                        [pc |-> "loop", index |-> index,
                         toAdd |-> userLeafNode(NoParent, 0, key, copyOfBs(value), index,
                                                NewCommit(<<key, value>>, salt)),
                         nodePointer |-> <<>>, depth |-> 0, turns |-> 0,
                         before |-> TreeOf("t")]]
        /\ hist' = [hist EXCEPT !["t"] = Append(@, <<index, key, value>>), !.n = @ + 1]
        /\ resp' = [op |-> "SetEnter", tr |-> "t"]
        /\ UNCHANGED <<heap, trees>>
        /\ UNCHANGED dirVars

\* One turn of the insertion loop that splits at a leaf of the same index too.
InsertTurn_noEqualCheck ==
    LET w == procs["writer"]
        nodes == heap[trees["t"].root]
        n == nodes[w.nodePointer]
        indexBits == ToBits(w.index)
        Goes(nodes1, w1, op) ==
            /\ heap' = [heap EXCEPT ![trees["t"].root] = nodes1]
            /\ procs' = [procs EXCEPT !["writer"] = [w1 EXCEPT !.turns = w.turns + 1]]
            /\ resp' = [op |-> op, tr |-> "t"]
    IN  /\ w.pc = "loop"
        /\ IF n.kind = "leaf"
           THEN IF w.depth >= 8 * Len(n.index)
                THEN Goes(nodes, [w EXCEPT !.pc = "panic"], "Set")
                ELSE LET direction == GetNthBit(n.index, w.depth)
                         side == IF direction THEN <<1>> ELSE <<0>>
                         moved == [n EXCEPT !.level = w.depth + 1, !.parent = w.nodePointer]
                         split == ((w.nodePointer \o side) :> moved)
                                  @@ newInteriorNode(w.nodePointer, n.parent, w.depth,
                                                     SubSeq(indexBits, 1, w.depth))
                     IN  Goes(split @@ nodes, w, "SetTurn")
           ELSE IF w.depth >= Len(indexBits)
           THEN Goes(nodes, [w EXCEPT !.pc = "panic"], "Set")
           ELSE LET direction == indexBits[w.depth + 1]
                    side == IF direction THEN <<1>> ELSE <<0>>
                    cleared == IF direction
                               THEN [nodes EXCEPT ![w.nodePointer].rightHash = Nil]
                               ELSE [nodes EXCEPT ![w.nodePointer].leftHash = Nil]
                    child == w.nodePointer \o side
                IN  IF isEmpty(nodes[child])
                    THEN Goes([cleared EXCEPT ![child] =
                                  [w.toAdd EXCEPT !.level = w.depth + 1,
                                                  !.parent = w.nodePointer]],
                              [w EXCEPT !.pc = "done"], "Set")
                    ELSE Goes(cleared, [w EXCEPT !.nodePointer = child, !.depth = @ + 1],
                              "SetTurn")
        /\ UNCHANGED <<trees, hist>>
        /\ UNCHANGED dirVars

\* One turn of the insertion loop of insertNode; after the last one Set returns.
InsertTurn ==
    LET w == procs["writer"]
        nodes == heap[trees["t"].root]
        n == nodes[w.nodePointer]
        indexBits == ToBits(w.index)
        Goes(nodes1, w1, op) ==
            /\ heap' = [heap EXCEPT ![trees["t"].root] = nodes1]
            /\ procs' = [procs EXCEPT !["writer"] = [w1 EXCEPT !.turns = w.turns + 1]]
            /\ resp' = [op |-> op, tr |-> "t"]
    IN  /\ w.pc = "loop"
        /\ IF n.kind = "leaf"
           THEN IF n.index = w.toAdd.index
                THEN Goes([nodes EXCEPT ![w.nodePointer] =
                              [w.toAdd EXCEPT !.parent = n.parent, !.level = n.level]],
                          [w EXCEPT !.pc = "done"], "Set")
                ELSE IF w.depth >= 8 * Len(n.index)
                THEN Goes(nodes, [w EXCEPT !.pc = "panic"], "Set")
                ELSE LET direction == GetNthBit(n.index, w.depth)
                         side == IF direction THEN <<1>> ELSE <<0>>
                         moved == [n EXCEPT !.level = w.depth + 1, !.parent = w.nodePointer]
                         split == ((w.nodePointer \o side) :> moved)
                                  @@ newInteriorNode(w.nodePointer, n.parent, w.depth,
                                                     SubSeq(indexBits, 1, w.depth))
                     IN  Goes(split @@ nodes, w, "SetTurn")
           ELSE IF w.depth >= Len(indexBits)
           THEN Goes(nodes, [w EXCEPT !.pc = "panic"], "Set")
           ELSE LET direction == indexBits[w.depth + 1]
                    side == IF direction THEN <<1>> ELSE <<0>>
                    cleared == IF direction
                               THEN [nodes EXCEPT ![w.nodePointer].rightHash = Nil]
                               ELSE [nodes EXCEPT ![w.nodePointer].leftHash = Nil]
                    child == w.nodePointer \o side
                IN  IF isEmpty(nodes[child])
                    THEN Goes([cleared EXCEPT ![child] =
                                  [w.toAdd EXCEPT !.level = w.depth + 1,
                                                  !.parent = w.nodePointer]],
                              [w EXCEPT !.pc = "done"], "Set")
                    ELSE Goes(cleared, [w EXCEPT !.nodePointer = child, !.depth = @ + 1],
                              "SetTurn")
        /\ UNCHANGED <<trees, hist>>
        /\ UNCHANGED dirVars

\* recomputeHash between two Sets.
InsertRecomputeHash ==
    /\ procs["writer"].pc \in {"idle", "done"}
    /\ TreeRecomputeHashOn("t")

NextInsert == InsertEnter \/ InsertTurn \/ InsertRecomputeHash

\* The loop runs in the caller of Set and waits for nothing: it takes its next
\* turn.
SpecInsert == InitInsert /\ [][NextInsert]_vars /\ WF_vars(InsertTurn)

(***************************************************************************)
(* merkletree: a reader walks the tree of a snapshot with Get, one node at *)
(* a time, while a writer applies Set to the current tree.  The writer     *)
(* works on t until the update; the update hashes t with recomputeHash,    *)
(* keeps it as the tree of the snapshot and makes c, its clone, the        *)
(* current tree.  hist.frozen is the tree of the snapshot as it was when   *)
(* the update made it.                                                     *)
(***************************************************************************)
IdleReader ==
    [pc |-> "idle", startN |-> 0, nodePointer |-> <<>>, depth |-> 0,
     authPath |-> NilAP, hash |-> Nil]

InitReader ==
    /\ heap = <<NewMerkleTree(<<7>>).nodes, NewMerkleTree(<<8>>).nodes>>
    /\ trees = [t |-> [nonce |-> <<7>>, root |-> 1, hash |-> NewMerkleTree(<<7>>).hash],
                c |-> [nonce |-> <<8>>, root |-> 2, hash |-> NewMerkleTree(<<8>>).hash]]
    /\ hist = [t |-> <<>>, c |-> <<>>, n |-> 0, phase |-> "open", frozen |-> NewMerkleTree(Nil)]
    /\ resp = [op |-> "NewMerkleTree", tr |-> "t"]
    /\ procs = [reader |-> IdleReader]
    /\ tree = <<>> /\ snapshots = <<>> /\ ad = NilConfig /\ capacity = 0
    /\ policies = NilConfig /\ tbs = <<>> /\ issued = <<>> /\ registered = <<>>

\* The writer's Set on the current tree: t before the update, c after it.
WriterSet ==
    /\ hist.n < MaxReaderSets
    /\ hist.phase \in {"open", "frozen"}
    /\ TreeSetOn(IF hist.phase = "open" THEN "t" ELSE "c")

\* The update, first half: the current tree is hashed.
WriterRecomputeHash ==
    /\ hist.phase = "open"
    /\ LET m == recomputeHash(TreeOf("t"))
       IN  /\ heap' = [heap EXCEPT ![trees["t"].root] = m.nodes]
           /\ trees' = [trees EXCEPT !["t"].hash = m.hash]
           /\ hist' = [hist EXCEPT !.phase = "hashed"]
           /\ resp' = [op |-> "recomputeHash", tr |-> "t"]
           /\ UNCHANGED procs
           /\ UNCHANGED dirVars

\* The update, second half: t is kept for the snapshot and its clone becomes
\* the current tree.
WriterClone ==
    /\ hist.phase = "hashed"
    /\ LET r == CloneAt("t", 2)
       IN  /\ heap' = [heap EXCEPT ![2] = r.nodes]
           /\ trees' = [trees EXCEPT !["c"] = r.tree]
           /\ hist' = [hist EXCEPT !["c"] = hist["t"], !.phase = "frozen",
                                   !.frozen = TreeOf("t")]
           /\ resp' = [op |-> "Clone", tr |-> "c"]
           /\ UNCHANGED procs
           /\ UNCHANGED dirVars

\* The reader enters Get(lookupIndex) on the tree of the snapshot, having read
\* the tree hash of its STR.
ReaderGet ==
    \E lookupIndex \in Indices :
        /\ hist.phase = "frozen"
        /\ procs["reader"].pc \in {"idle", "done"}
        /\ procs' = [procs EXCEPT !["reader"] =
                        [pc |-> "walk", startN |-> hist.n, nodePointer |-> <<>>, depth |-> 0,
                         authPath |-> [NilAP EXCEPT !.TreeNonce = trees["t"].nonce,
                                                    !.LookupIndex = lookupIndex],
                         hash |-> trees["t"].hash]]
        /\ resp' = [op |-> "GetEnter", tr |-> "t"]
        /\ UNCHANGED <<heap, trees, hist>>
        /\ UNCHANGED dirVars

\* One turn of the search loop of Get, or after its last turn the making of the
\* leaf and the return.
ReaderStep ==
    LET rd == procs["reader"]
        n == heap[trees["t"].root][rd.nodePointer]
        lookupIndex == rd.authPath.LookupIndex
        direction == ToBits(lookupIndex)[rd.depth + 1]
        hashArr == IF direction THEN HashArr(n.leftHash) ELSE HashArr(n.rightHash)
        leaf == IF n.kind = "leaf"
                THEN IF n.index = lookupIndex
                     THEN ProofNode(n.level, n.index, n.value, FALSE, n.commitment)
                     ELSE ProofNode(n.level, n.index, Nil, FALSE,
                                    [n.commitment EXCEPT !.Salt = Nil])
                ELSE ProofNode(n.level, n.index, Nil, TRUE, NoCommit)
    IN  /\ rd.pc = "walk"
        /\ procs' = [procs EXCEPT !["reader"] =
                        IF n.kind \in {"leaf", "empty"}
                        THEN [rd EXCEPT !.pc = "done", !.authPath.Leaf = leaf]
                        ELSE [rd EXCEPT !.nodePointer = @ \o (IF direction THEN <<1>> ELSE <<0>>),
                                        !.depth = @ + 1,
                                        !.authPath.PrunedTree = Append(@, hashArr)]]
        /\ resp' = [op |-> IF n.kind \in {"leaf", "empty"} THEN "Get" ELSE "GetTurn",
                    tr |-> "t"]
        /\ UNCHANGED <<heap, trees, hist>>
        /\ UNCHANGED dirVars

NextReader == WriterSet \/ WriterRecomputeHash \/ WriterClone \/ ReaderGet \/ ReaderStep

SpecReader == InitReader /\ [][NextReader]_vars

(***************************************************************************)
(* C1.  Every STR the PAD has issued satisfies the chain invariant: the    *)
(* STR of epoch 0 has previous epoch 0 and an empty previous STR hash; for *)
(* e > 0 the STR of epoch e has previous epoch e - 1 and, as previous STR  *)
(* hash, the digest of the signature of the STR of epoch e - 1, so that    *)
(* VerifyHashChain holds between them; the STRs the PAD still retains are  *)
(* the issued ones, whatever the capacity.                                 *)
(***************************************************************************)
ChainInvariant ==
    /\ issued[1].Epoch = 0
    /\ issued[1].PreviousEpoch = 0
    /\ Bs(issued[1].PreviousSTRHash) = <<>>
    /\ \A i \in 2..Len(issued) :
          /\ issued[i].Epoch = i - 1
          /\ issued[i].PreviousEpoch = i - 2
          /\ issued[i].PreviousSTRHash = Digest(<<issued[i - 1].Signature>>)
          /\ VerifyHashChain(issued[i], issued[i - 1])
    /\ \A e \in DOMAIN snapshots : snapshots[e] = issued[e + 1]

\* Two Updates with capacity 1 after a Set: the STRs of epochs 0 and 1 are gone.
ChainWitness ==
    /\ capacity = 1
    /\ Len(issued) = 3
    /\ DOMAIN snapshots = {2}
    /\ LeafPaths(issued[2].tree) # {}

(***************************************************************************)
(* C2.  Every STR the PAD retains carries a signature that verifies under  *)
(* the public signing key over the serialization of the STR's present      *)
(* fields, SerializeInternal followed by the bytes of its associated data  *)
(* (also in the directory's view of it), and a retained STR never changes  *)
(* after it was issued.                                                    *)
(***************************************************************************)
STRSignaturesVerify ==
    /\ [](\A e \in DOMAIN snapshots :
            /\ Verify(Public(SignKey), STRBytes(snapshots[e]), snapshots[e].Signature)
            /\ Verify(Public(SignKey), DirSTRBytes(NewDirSTR(snapshots[e])),
                      NewDirSTR(snapshots[e]).Signature)
            /\ STRBytes(snapshots[e]) =
                  SerializeInternal(snapshots[e]) \o ConfigBytes(snapshots[e].Ad))
    /\ [][\A e \in DOMAIN snapshots \cap DOMAIN snapshots' :
             snapshots'[e] = snapshots[e]]_vars

\* An STR issued by Update over a tree with a leaf and a changed associated data.
STRSignaturesWitness ==
    /\ resp.op = "Update"
    /\ PadLatestSTR.Epoch = 2
    /\ PadLatestSTR.Ad.UpdateInterval = 2
    /\ LeafPaths(PadLatestSTR.tree) # {}

(***************************************************************************)
(* C3.  The latest epoch is 0 after construction; each Update raises it by *)
(* exactly one, so that it equals the number of Updates so far; Register,  *)
(* KeyLookup, KeyLookupInEpoch, Monitor and GetSTRHistory leave it as it   *)
(* is.  (resp.op names the operation that took the step.)                  *)
(***************************************************************************)
EpochCountsUpdates ==
    /\ LatestSTR.Epoch = 0
    /\ [](LatestSTR.Epoch = Len(issued) - 1)
    /\ [][/\ resp'.op = "Update"
                => /\ LatestSTR'.Epoch = LatestSTR.Epoch + 1
                   /\ Len(issued') = Len(issued) + 1
          /\ resp'.op \in {"Register", "KeyLookup", "KeyLookupInEpoch", "Monitor",
                           "GetSTRHistory"}
                => /\ LatestSTR'.Epoch = LatestSTR.Epoch
                   /\ issued' = issued]_vars

\* The second Update has been taken, after a registration.
EpochCountsWitness ==
    /\ resp.op = "Update"
    /\ LatestSTR.Epoch = 2
    /\ registered # <<>>

(***************************************************************************)
(* How the last response relates to the registrations so far.              *)
(***************************************************************************)
\* The response carries a proof.
HasProof(r) == r.err \in {"Success", "NameExisted", "NameNotFound"}

\* name was registered successfully in an epoch that an Update has ended.
BoundEarlier(name) ==
    name \in DOMAIN registered /\ registered[name].epoch < LatestSTR.Epoch

\* name was registered successfully in the present epoch.
PendingNow(name) ==
    name \in DOMAIN registered /\ registered[name].epoch = LatestSTR.Epoch

\* The node at which the walk of Get for index ends in tree m.
RECURSIVE TerminalNode(_, _, _)
TerminalNode(m, index, p) ==
    IF m.nodes[p].kind = "interior"
    THEN TerminalNode(m, index,
                      p \o (IF GetNthBit(index, Len(p)) THEN <<1>> ELSE <<0>>))
    ELSE m.nodes[p]

(***************************************************************************)
(* C4.  For every response of Register or KeyLookup that carries a proof,  *)
(* the root hash reconstructed from the authentication path equals the     *)
(* TreeHash of the STR of the same response.                               *)
(***************************************************************************)
ProofMatchesSTR ==
    (resp.op \in {"Register", "KeyLookup"} /\ HasProof(resp))
        => authPathHash(resp.ap) = resp.str.TreeHash

(***************************************************************************)
(* C5.  After a successful Register(name, v) and before the next Update,   *)
(* KeyLookup(name) returns Success with a proof of absence, the latest     *)
(* STR and the TB that Register returned.                                  *)
(***************************************************************************)
LookupOfPendingName ==
    (resp.op = "KeyLookup" /\ PendingNow(resp.name))
        => /\ resp.err = "Success"
           /\ ProofOfAbsence(resp.ap)
           /\ resp.str = LatestSTR
           /\ resp.tb = registered[resp.name].tb

(***************************************************************************)
(* C6.  For a name whose Register succeeded in an epoch that an Update has *)
(* ended, KeyLookup returns Success with a proof of inclusion whose leaf   *)
(* carries the registered value, no TB, and the latest STR (the STR of the *)
(* next epoch right after that Update); after an Update the TB map is      *)
(* empty.                                                                  *)
(***************************************************************************)
PromiseFulfilled ==
    /\ resp.op = "Update" => tbs = <<>>
    /\ \A name \in DOMAIN registered :
          BoundEarlier(name) =>
              LET r == KeyLookupResult(name)
              IN  /\ r.err = "Success"
                  /\ ProofOfInclusion(r.ap)
                  /\ r.ap.Leaf.Value = registered[name].value
                  /\ r.tb = NilTB
                  /\ r.str = LatestSTR
                  /\ r.str.Epoch > registered[name].epoch
    /\ (resp.op = "KeyLookup" /\ BoundEarlier(resp.name)) => resp = KeyLookupResult(resp.name)

\* Both names were registered in epoch 0 and Update has just ended that epoch.
PromiseFulfilledWitness ==
    /\ resp.op = "Update"
    /\ LatestSTR.Epoch = 1
    /\ DOMAIN registered = {alice, bob}
    /\ \A name \in DOMAIN registered : registered[name].epoch = 0

(***************************************************************************)
(* C7.  Register(name, v2) with a non-empty v2 for a name bound in an      *)
(* earlier epoch with v1 returns NameExisted with a proof of inclusion for *)
(* v1 and no TB, and changes neither the tree, the snapshots nor the TB    *)
(* map: the bound value stays v1, whether or not v2 equals v1.             *)
(***************************************************************************)
RegisterBoundName ==
    [][(resp'.op = "Register" /\ resp'.value # <<>> /\ BoundEarlier(resp'.name))
          => /\ resp'.err = "NameExisted"
             /\ ProofOfInclusion(resp'.ap)
             /\ resp'.ap.Leaf.Value = registered[resp'.name].value
             /\ resp'.tb = NilTB
             /\ UNCHANGED <<tree, snapshots, ad, capacity, policies, tbs, registered>>
             /\ Get(tree', PadIndex(resp'.name)).Leaf.Value = registered[resp'.name].value]_vars

\* A bound name was registered again with another value.
RegisterBoundNameWitness ==
    /\ resp.op = "Register"
    /\ BoundEarlier(resp.name)
    /\ resp.err = "NameExisted"
    /\ resp.value # <<>>
    /\ resp.value # registered[resp.name].value

(***************************************************************************)
(* C8.  Register(name, v2) with a non-empty v2 for a name registered with  *)
(* v1 earlier in the same epoch returns NameExisted with a proof of        *)
(* absence and the TB issued for v1; the TB map keeps that one TB and the  *)
(* pending value stays v1.                                                 *)
(***************************************************************************)
RegisterPendingName ==
    (resp.op = "Register" /\ resp.value # <<>> /\ resp.err # "Success"
     /\ PendingNow(resp.name))
        => /\ resp.err = "NameExisted"
           /\ ProofOfAbsence(resp.ap)
           /\ resp.tb = registered[resp.name].tb
           /\ resp.tb.Value = registered[resp.name].value
           /\ tbs[resp.name] = registered[resp.name].tb
           /\ Get(tree, PadIndex(resp.name)).Leaf.Value = registered[resp.name].value

MalformedRequest(r) ==
    \/ r.op = "Register" /\ (r.name = <<>> \/ r.value = <<>>)
    \/ r.op \in {"KeyLookup", "KeyLookupInEpoch", "Monitor"} /\ r.name = <<>>

MalformedRejected ==
    /\ [](MalformedRequest(resp) =>
            /\ resp.err = "ErrMalformedMessage"
            /\ resp.ap = NilAP /\ resp.tb = NilTB /\ resp.aps = <<>> /\ resp.strs = <<>>)
    /\ [][MalformedRequest(resp')
             => /\ UNCHANGED <<tree, snapshots, ad, capacity, policies, tbs, registered>>
                /\ LeafPaths(tree') = LeafPaths(tree)]_vars

\* A Register with an empty value for a name that is not bound.
MalformedRejectedWitness ==
    /\ resp.op = "Register"
    /\ resp.name = alice
    /\ resp.value = <<>>
    /\ alice \notin DOMAIN registered
    /\ LatestSTR.Epoch = 1

(***************************************************************************)
(* C11.  KeyLookupInEpoch with an epoch above the latest epoch, and        *)
(* Monitor or GetSTRHistory with a start epoch above the latest epoch or   *)
(* above the end epoch, return the malformed message error with no proof   *)
(* and no STR, and leave the directory as it is.                           *)
(***************************************************************************)
BadEpochRange(r) ==
    \/ r.op = "KeyLookupInEpoch" /\ r.startEp > LatestSTR.Epoch
    \/ /\ r.op \in {"Monitor", "GetSTRHistory"}
       /\ (r.startEp > LatestSTR.Epoch \/ r.startEp > r.endEp)

BadEpochRangeRejected ==
    /\ [](BadEpochRange(resp) =>
            /\ resp.err = "ErrMalformedMessage"
            /\ resp.ap = NilAP /\ resp.str = NilDirSTR
            /\ resp.aps = <<>> /\ resp.strs = <<>>)
    /\ [][resp'.op \in {"KeyLookupInEpoch", "Monitor", "GetSTRHistory"}
             => UNCHANGED <<tree, snapshots, ad, capacity, policies, tbs, issued,
                            registered>>]_vars

\* A Monitor for a bound name whose range starts after it ends, both issued.
BadEpochRangeWitness ==
    /\ resp.op = "Monitor"
    /\ resp.name = alice
    /\ BoundEarlier(alice)
    /\ resp.startEp = 1
    /\ resp.endEp = 0
    /\ resp.err = "ErrMalformedMessage"

(***************************************************************************)
(* C12.  A KeyLookupInEpoch, Monitor or GetSTRHistory request that passes  *)
(* the tests on the name and on the latest epoch but names an epoch the    *)
(* PAD no longer retains is answered with the malformed message error.     *)
(***************************************************************************)
EvictedEpochRequest(r) ==
    LET endEp == IF r.endEp > LatestSTR.Epoch THEN LatestSTR.Epoch ELSE r.endEp
    IN  \/ /\ r.op = "KeyLookupInEpoch"
           /\ r.name # <<>>
           /\ r.startEp <= LatestSTR.Epoch
           /\ ~PadHasSTR(r.startEp)
        \/ /\ r.op \in {"Monitor", "GetSTRHistory"}
           /\ r.op = "Monitor" => r.name # <<>>
           /\ r.startEp <= LatestSTR.Epoch
           /\ r.startEp <= r.endEp
           /\ \E ep \in r.startEp..endEp : ~PadHasSTR(ep)

EvictedEpochRejected ==
    EvictedEpochRequest(resp) => resp.err = "ErrMalformedMessage"

(***************************************************************************)
(* C13.  The PAD retains at most capacity snapshots, and the retained      *)
(* epochs are exactly the most recent ones, from max(0, latest - capacity  *)
(* + 1) to latest, where latest is the number of Updates so far; the       *)
(* snapshot of the latest epoch is the STR issued last.                    *)
(***************************************************************************)
RetentionWindow ==
    LET latest == Len(issued) - 1
        oldest == IF latest - capacity + 1 > 0 THEN latest - capacity + 1 ELSE 0
    IN  /\ Cardinality(DOMAIN snapshots) <= capacity
        /\ DOMAIN snapshots = oldest..latest
        /\ PadLatestSTR = issued[latest + 1]

\* The second Update with capacity 2 has evicted epoch 0 and nothing else.
RetentionWitness ==
    /\ capacity = 2
    /\ resp.op = "Update"
    /\ Len(issued) = 3
    /\ DOMAIN snapshots = {1, 2}

(***************************************************************************)
(* C14.  A snapshot, once written by Update, stays as it was issued while  *)
(* it is retained: for every retained epoch e the STR of GetSTR(e) is the  *)
(* STR issued for e, and LookupInEpoch(name, e) is, for every name, the    *)
(* authentication path in the tree that was frozen for e.  Register (and   *)
(* the Set in it) changes no snapshot, and Update changes none that it     *)
(* keeps (the STR of a snapshot carries its tree).                         *)
(***************************************************************************)
SnapshotsImmutable ==
    /\ [](\A e \in DOMAIN snapshots :
            /\ PadGetSTR(e) = issued[e + 1]
            /\ \A name \in Names :
                  PadLookupInEpoch(name, e) = Get(issued[e + 1].tree, PadIndex(name)))
    /\ [][/\ resp'.op = "Register" => snapshots' = snapshots
          /\ \A e \in DOMAIN snapshots \cap DOMAIN snapshots' :
                PadGetSTR(e)' = PadGetSTR(e)]_vars

\* A name registered in epoch 1, and an Update after it, with the snapshot of
\* epoch 1 (where the name is absent) still retained.
SnapshotsImmutableWitness ==
    /\ resp.op = "Update"
    /\ LatestSTR.Epoch = 2
    /\ PadHasSTR(1)
    /\ alice \in DOMAIN registered
    /\ registered[alice].epoch = 1
    /\ ProofOfAbsence(PadLookupInEpoch(alice, 1))
    /\ ProofOfInclusion(PadLookupInEpoch(alice, 2))

InclusionProofs ==
    /\ \A e \in DOMAIN snapshots : \A name \in DOMAIN registered :
          registered[name].epoch < e =>
              LET ap == PadLookupInEpoch(name, e)
              IN  /\ authPathHash(ap) = PadGetSTR(e).TreeHash
                  /\ ap.LookupIndex = PadIndex(name)
                  /\ ~ap.Leaf.IsEmpty
                  /\ ap.Leaf.Index = ap.LookupIndex
                  /\ ap.Leaf.Value = registered[name].value
                  /\ Len(ap.PrunedTree) = ap.Leaf.Level
    /\ (resp.op = "KeyLookupInEpoch" /\ resp.err = "Success") =>
          /\ ProofOfInclusion(resp.ap)
          /\ resp.strs[1].Epoch = resp.startEp
          /\ authPathHash(resp.ap) = resp.strs[1].TreeHash

\* A KeyLookupInEpoch found a name in a snapshot that holds both names, three
\* levels down.
InclusionProofsWitness ==
    /\ resp.op = "KeyLookupInEpoch"
    /\ resp.err = "Success"
    /\ resp.ap.Leaf.Level = 3
    /\ Cardinality(LeafPaths(PadGetSTR(resp.startEp).tree)) = 2

(***************************************************************************)
(* C17.  Proof of absence: for every name not bound in the snapshot of a   *)
(* retained epoch e, the authentication path of the name in that snapshot  *)
(* reconstructs to the TreeHash of the STR of e and ends in an empty node  *)
(* or in a leaf with another index, in both cases a node whose index       *)
(* agrees with the lookup index on the bits of the path; in the snapshot   *)
(* of epoch 0 it ends in an empty node.  So does the path of a             *)
(* KeyLookupInEpoch that answers NameNotFound.                             *)
(***************************************************************************)
AbsenceProofs ==
    /\ \A e \in DOMAIN snapshots : \A name \in Names \ {<<>>} :
          (name \notin DOMAIN registered \/ registered[name].epoch >= e) =>
              LET ap == PadLookupInEpoch(name, e)
              IN  /\ authPathHash(ap) = PadGetSTR(e).TreeHash
                  /\ ap.LookupIndex = PadIndex(name)
                  /\ ProofOfAbsence(ap)
                  /\ Len(ap.PrunedTree) = ap.Leaf.Level
                  /\ \A i \in 0..(ap.Leaf.Level - 1) :
                        GetNthBit(ap.Leaf.Index, i) = GetNthBit(ap.LookupIndex, i)
                  /\ e = 0 => ap.Leaf.IsEmpty
    /\ (resp.op = "KeyLookupInEpoch" /\ resp.err = "NameNotFound") =>
          /\ ProofOfAbsence(resp.ap)
          /\ authPathHash(resp.ap) = resp.strs[1].TreeHash

\* The latest snapshot holds one name only; the path of the other name ends in
\* that name's leaf, and in the retained snapshot of the epoch before in an
\* empty node.
AbsenceProofsWitness ==
    /\ DOMAIN registered = {bob}
    /\ LatestSTR.Epoch = 2
    /\ registered[bob].epoch = 1
    /\ PadHasSTR(1)
    /\ ~PadLookupInEpoch(alice, 2).Leaf.IsEmpty
    /\ PadLookupInEpoch(alice, 1).Leaf.IsEmpty

(***************************************************************************)
(* C18.  Monitor for a non-empty name and a range whose start epoch is     *)
(* neither above its end epoch nor above the latest epoch returns one      *)
(* authentication path and one STR for each epoch from the start epoch to  *)
(* the end epoch, or to the latest epoch when the end epoch is above it,   *)
(* in ascending order.                                                     *)
(***************************************************************************)
MonitorReturnsRange ==
    (/\ resp.op = "Monitor"
     /\ resp.name # <<>>
     /\ resp.startEp <= resp.endEp
     /\ resp.startEp <= LatestSTR.Epoch)
        => LET endEp == IF resp.endEp > LatestSTR.Epoch THEN LatestSTR.Epoch
                        ELSE resp.endEp
               n == endEp - resp.startEp + 1
           IN  /\ resp.err = "Success"
               /\ Len(resp.aps) = n
               /\ Len(resp.strs) = n
               /\ \A i \in 1..n : resp.strs[i].Epoch = resp.startEp + i - 1

(***************************************************************************)
(* C19.  GetSTRHistory with a start epoch not above the latest epoch and   *)
(* an end epoch above it returns the STRs of the epochs from the start     *)
(* epoch to the latest epoch, in ascending order, and no other STR.        *)
(***************************************************************************)
HistoryClampsToLatest ==
    (/\ resp.op = "GetSTRHistory"
     /\ resp.startEp <= LatestSTR.Epoch
     /\ resp.endEp > LatestSTR.Epoch)
        => LET n == LatestSTR.Epoch - resp.startEp + 1
           IN  /\ resp.err = "Success"
               /\ Len(resp.strs) = n
               /\ \A i \in 1..n : /\ resp.strs[i].Epoch = resp.startEp + i - 1
                                  /\ resp.strs[i] = NewDirSTR(issued[resp.startEp + i])

(***************************************************************************)
(* C20.  A change of policies takes effect one epoch late: the STR that an *)
(* Update issues carries the policies that were in force at the Update     *)
(* before it (at construction, for the first Update), which the PAD holds  *)
(* as its associated data, and the policies set since then are carried by  *)
(* the STR of the Update after; the STRs already issued keep theirs.       *)
(***************************************************************************)
PolicyChangeOneEpochLate ==
    [][resp'.op = "Update"
          => /\ LatestSTR'.Policies = ad
             /\ ad' = policies
             /\ \A e \in DOMAIN snapshots \cap DOMAIN snapshots' :
                   snapshots'[e].Ad = snapshots[e].Ad]_vars

RootHash(m) == recomputeHash(m).hash

(***************************************************************************)
(* C22.  Clone isolation: once c = t.Clone(), a Set or a recomputeHash     *)
(* applied to one of t and c leaves the other tree as it was, and with it  *)
(* all that can be observed of it (its nonce, its hash and Get for every   *)
(* index are computed from the tree); the two trees never have the same    *)
(* nodes under their roots.                                                *)
(***************************************************************************)
CloneIsolation ==
    /\ [](trees["t"].root # trees["c"].root)
    /\ [][\A other \in {"t", "c"} :
             (resp'.op \in {"Set", "recomputeHash"} /\ resp'.tr # other)
                 => TreeOf(other)' = TreeOf(other)]_vars

\* After the clone, a Set on t and then a Set on c for the same index.
CloneIsolationWitness ==
    /\ resp.op = "Set"
    /\ resp.tr = "c"
    /\ Len(hist["c"]) = 1
    /\ Len(hist["t"]) = 1
    /\ hist["c"][1][1] = hist["t"][1][1]
    /\ trees["c"].nonce = trees["t"].nonce

\* The tree that the Sets of seq, in order, make of m when RandSlice gives salt
\* to each of them.
RECURSIVE Replay(_, _, _)
Replay(m, seq, salt) ==
    IF seq = <<>> THEN m
    ELSE Replay(Set(m, seq[1][1], seq[1][2], seq[1][3], salt), Tail(seq), salt)

(***************************************************************************)
(* C23.  Determinism of hashing: the root hash of a tree is a function of  *)
(* its nonce and of the sequence of Set(index, key, value) applied to it:  *)
(* a tree with the same nonce to which the same sequence is applied has    *)
(* the same root hash, whatever RandSlice gave inside each Set.            *)
(***************************************************************************)
HashDeterminism ==
    \A salt \in Salts :
        RootHash(Replay(NewMerkleTree(TreeOf("t").nonce), hist["t"], salt))
            = RootHash(TreeOf("t"))

(***************************************************************************)
(* C24.  Update idempotence: for every tree reached and every index, key   *)
(* and value, applying Set(index, key, value) twice gives the same root    *)
(* hash as applying it once, whatever RandSlice gave inside each Set.      *)
(***************************************************************************)
SetIdempotent ==
    \A index \in Indices, key \in TreeKeys, value \in TreeValues :
        \A salt1 \in Salts, salt2 \in Salts :
            LET once == Set(TreeOf("t"), index, key, value, salt1)
                twice == Set(once, index, key, value, salt2)
            IN  RootHash(twice) = RootHash(once)

(***************************************************************************)
(* C25.  Commitment binding: a commitment made of a value list verifies    *)
(* against a value list if and only if the two lists are equal, element by *)
(* element.                                                                *)
(***************************************************************************)
CommitmentBinding ==
    resp.op = "Verify" => (resp.ok <=> resp.given = resp.values)

(***************************************************************************)
(* C26.  When two callers have both returned from a Register with a        *)
(* non-empty key for the same name, not bound before, exactly one of them  *)
(* has Success and the other NameExisted, and the TB map holds for the     *)
(* name the TB returned with Success.                                      *)
(***************************************************************************)
ConcurrentRegisterSerialized ==
    \A c1 \in Callers, c2 \in Callers :
        (/\ c1 # c2
         /\ procs[c1].pc = "done" /\ procs[c2].pc = "done"
         /\ procs[c1].name = procs[c2].name
         /\ procs[c1].name # <<>>
         /\ procs[c1].key # <<>> /\ procs[c2].key # <<>>)
            => /\ {procs[c1].err, procs[c2].err} = {"Success", "NameExisted"}
               /\ procs[c1].err = "Success" => tbs[procs[c1].name] = procs[c1].tb

(***************************************************************************)
(* C27.  A reader that reads a retained snapshot while the writer applies  *)
(* Set to the current tree sees the snapshot as the update made it: at     *)
(* every moment after the update the tree of the snapshot, its nodes and   *)
(* its hash, is what it was when the update made it, and a Get that has    *)
(* returned, however its turns were interleaved with the writer's Sets,    *)
(* returned the authentication path and the tree hash of that tree.        *)
(***************************************************************************)
ReaderSeesSnapshot ==
    hist.phase = "frozen" =>
        /\ TreeOf("t") = hist.frozen
        /\ procs["reader"].pc = "done" =>
              /\ procs["reader"].authPath
                    = Get(hist.frozen, procs["reader"].authPath.LookupIndex)
              /\ procs["reader"].hash = hist.frozen.hash

\* A Get on a snapshot with a leaf has just returned, after at least one turn of
\* its loop, and the writer applied a Set to the current tree since it entered.
ReaderSeesSnapshotWitness ==
    /\ hist.phase = "frozen"
    /\ resp.op = "Get"
    /\ procs["reader"].pc = "done"
    /\ procs["reader"].depth >= 1
    /\ hist.n > procs["reader"].startN
    /\ LeafPaths(hist.frozen) # {}
    /\ TreeOf("c").nodes # hist.frozen.nodes

\* The places in the history of t of the Sets for index i.
SetsOf(i) == {k \in 1..Len(hist["t"]) : hist["t"][k][1] = i}

\* The value of the most recent Set for index i, which has been set.
LastValueOf(i) ==
    hist["t"][CHOOSE k \in SetsOf(i) : \A l \in SetsOf(i) : l <= k][3]

(***************************************************************************)
(* C28.  The tree is a map from index to binding: after any sequence of    *)
(* Sets, Get(i) returns for an index i that was set a leaf with Index = i, *)
(* not empty, carrying the value of the most recent Set for i; and for an  *)
(* index that was never set a proof of absence, an empty node or a leaf of *)
(* another index.  What Get(j) returns thus depends on the Sets for j      *)
(* only: a Set for i changes neither whether j is present nor its value.   *)
(***************************************************************************)
TreeIsMap ==
    \A i \in Indices :
        LET leaf == Get(TreeOf("t"), i).Leaf
        IN  IF SetsOf(i) # {}
            THEN /\ leaf.Index = i
                 /\ ~leaf.IsEmpty
                 /\ leaf.Value = LastValueOf(i)
            ELSE leaf.IsEmpty \/ leaf.Index # i

\* A Set has just replaced the value of an index that was set before with
\* another value, a second index is set, and Get for a third index, never set,
\* ends at the leaf of the first.
TreeIsMapWitness ==
    /\ resp.op = "Set"
    /\ Len(hist["t"]) = 3
    /\ hist["t"][3][1] = <<1>> /\ hist["t"][1][1] = <<1>>
    /\ hist["t"][3][3] # hist["t"][1][3]
    /\ hist["t"][2][1] = <<129>>
    /\ SetsOf(<<33>>) = {}
    /\ Get(TreeOf("t"), <<33>>).Leaf.Index = <<1>>
    /\ ~Get(TreeOf("t"), <<33>>).Leaf.IsEmpty

\* The number of leading bits that the indices a and b have in common.
CommonPrefixLen(a, b) ==
    LET bitsA == ToBits(a)
        bitsB == ToBits(b)
        same == {k \in 0..Len(bitsA) : \A l \in 1..k : bitsA[l] = bitsB[l]}
    IN  CHOOSE k \in same : \A l \in same : l <= k

\* The indices of the Sets applied to t are pairwise distinct.
DistinctIndices ==
    \A k, l \in 1..Len(hist["t"]) : k # l => hist["t"][k][1] # hist["t"][l][1]

(***************************************************************************)
(* C29.  Leaf depth: after any sequence of Sets with pairwise distinct     *)
(* indices, every user leaf node sits at the level 1 + the longest common  *)
(* prefix of its index with the index of any other leaf of the tree, 1     *)
(* when it shares its first bit with no other leaf, and that level is its  *)
(* depth under the root; two leaves that are siblings sit at the same      *)
(* level, one more than the common prefix of their indices.                *)
(***************************************************************************)
LeafDepthInvariant ==
    DistinctIndices =>
        LET m == TreeOf("t")
        IN  \A p \in LeafPaths(m) :
                LET n == m.nodes[p]
                    prefixes == {CommonPrefixLen(n.index, m.nodes[q].index) :
                                    q \in LeafPaths(m) \ {p}} \cup {0}
                IN  /\ n.level = 1 + (CHOOSE k \in prefixes : \A l \in prefixes : l <= k)
                    /\ n.level = Len(p)
                    /\ \A q \in LeafPaths(m) \ {p} :
                          m.nodes[q].parent = n.parent =>
                              /\ m.nodes[q].level = n.level
                              /\ n.level = 1 + CommonPrefixLen(n.index, m.nodes[q].index)

\* Three Sets with distinct indices: two leaves were pushed down to level 3 as
\* siblings, a third sits at level 2, and the last Set pushed a leaf down.
LeafDepthWitness ==
    /\ resp.op = "Set"
    /\ DistinctIndices
    /\ Len(hist["t"]) = 3
    /\ hist["t"][3][1] = <<33>>
    /\ \E p, q, r \in LeafPaths(TreeOf("t")) :
          /\ TreeOf("t").nodes[p].index = <<1>> /\ TreeOf("t").nodes[p].level = 3
          /\ TreeOf("t").nodes[q].index = <<33>> /\ TreeOf("t").nodes[q].level = 3
          /\ TreeOf("t").nodes[q].parent = TreeOf("t").nodes[p].parent
          /\ TreeOf("t").nodes[r].index = <<65>> /\ TreeOf("t").nodes[r].level = 2

\* The hash of the node at path p as its hash method computes it when no cached
\* hash is used.
RECURSIVE currentHash(_, _, _)
currentHash(nodes, p, nonce) ==
    LET n == nodes[p]
    IN  IF n.kind = "interior"
        THEN Digest(<<currentHash(nodes, p \o <<0>>, nonce),
                      currentHash(nodes, p \o <<1>>, nonce)>>)
        ELSE IF n.kind = "leaf"
        THEN userLeafNodeHash(n, nonce)
        ELSE emptyNodeHash(n, nonce)

(***************************************************************************)
(* C30.  Cached hashes: in every state reached through NewMerkleTree, Set, *)
(* recomputeHash and Clone in any order, each cached leftHash and          *)
(* rightHash of each interior node of each tree is absent (nil) or equal   *)
(* to the current hash of the child on that side.                          *)
(***************************************************************************)
CachedHashInvariant ==
    \A tr \in {"t", "c"} :
        LET m == TreeOf(tr)
        IN  \A p \in DOMAIN m.nodes :
                m.nodes[p].kind = "interior" =>
                    /\ \/ m.nodes[p].leftHash = Nil
                       \/ m.nodes[p].leftHash = currentHash(m.nodes, p \o <<0>>, m.nonce)
                    /\ \/ m.nodes[p].rightHash = Nil
                       \/ m.nodes[p].rightHash = currentHash(m.nodes, p \o <<1>>, m.nonce)

(***************************************************************************)
(* C31.  The hash field of the tree is, in every state reached through     *)
(* NewMerkleTree, Set and recomputeHash, absent (nil) or equal to the      *)
(* current hash of the root; it never holds the root hash of an earlier    *)
(* content of the tree.                                                    *)
(***************************************************************************)
StoredHashCurrent ==
    \/ TreeOf("t").hash = Nil
    \/ TreeOf("t").hash = currentHash(TreeOf("t").nodes, <<>>, TreeOf("t").nonce)

\* The path of the sibling of the node that the walk for index descends into at
\* its k-th step.
SiblingPath(index, k) ==
    [l \in 1..k |-> IF l < k
                    THEN (IF ToBits(index)[l] THEN 1 ELSE 0)
                    ELSE (IF ToBits(index)[l] THEN 0 ELSE 1)]

(***************************************************************************)
(* C32.  For every tree reached by Sets, with or without a recomputeHash   *)
(* after the last Set, and every index, Get puts into the path at each     *)
(* step of its walk the current hash of the sibling of the node it         *)
(* descends into.                                                          *)
(***************************************************************************)
GetSiblingHashesCurrent ==
    \A index \in Indices :
        LET m == TreeOf("t")
            pruned == Get(m, index).PrunedTree
        IN  \A k \in 1..Len(pruned) :
                pruned[k] = currentHash(m.nodes, SiblingPath(index, k), m.nonce)

\* The Get that has just returned ended at the leaf of an index other than the
\* one it looked up.
EndsAtOtherLeaf ==
    /\ resp.op = "Get"
    /\ TerminalNode(TreeOf("t"), resp.ap.LookupIndex, <<>>).kind = "leaf"
    /\ TerminalNode(TreeOf("t"), resp.ap.LookupIndex, <<>>).index # resp.ap.LookupIndex

(***************************************************************************)
(* C33.  When Get(lookupIndex) ends at a user leaf node of another index,  *)
(* the leaf it returns has no value and no commitment salt, only the       *)
(* level, the index and the commitment hash of that leaf; the leaf in the  *)
(* tree keeps the value of its last Set and its salt, and a Get for the    *)
(* index of that leaf returns them.                                        *)
(***************************************************************************)
AbsenceProofRedacted ==
    EndsAtOtherLeaf =>
        LET n == TerminalNode(TreeOf("t"), resp.ap.LookupIndex, <<>>)
            own == Get(TreeOf("t"), n.index).Leaf
        IN  /\ resp.ap.Leaf = ProofNode(n.level, n.index, Nil, FALSE,
                                        [Salt |-> Nil, Hash |-> n.commitment.Hash])
            /\ n.value = LastValueOf(n.index)
            /\ n.commitment.Salt \in Salts
            /\ own.Value = n.value
            /\ own.Commitment = n.commitment

\* A Get ended at the leaf of another index in a tree of two leaves, the value
\* of that leaf having been replaced by a second Set.
AbsenceProofRedactedWitness ==
    /\ EndsAtOtherLeaf
    /\ Len(hist["t"]) = 3
    /\ Cardinality(LeafPaths(TreeOf("t"))) = 2
    /\ Cardinality(SetsOf(resp.ap.Leaf.Index)) = 2
    /\ resp.ap.Leaf.Level >= 2

\* The path of the node that holds the node at path p as a child.
ParentPath(p) == SubSeq(p, 1, Len(p) - 1)

\* The structure of tree m: its root, the children of its interior nodes, the
\* levels and the parent pointers.
WellFormed(m) ==
    /\ m.nodes[<<>>].kind = "interior"
    /\ m.nodes[<<>>].level = 0
    /\ m.nodes[<<>>].parent = NoParent
    /\ \A p \in DOMAIN m.nodes :
          /\ m.nodes[p].kind = "interior" =>
                (p \o <<0>>) \in DOMAIN m.nodes /\ (p \o <<1>>) \in DOMAIN m.nodes
          /\ p # <<>> =>
                /\ ParentPath(p) \in DOMAIN m.nodes
                /\ m.nodes[ParentPath(p)].kind = "interior"
                /\ m.nodes[p].parent = ParentPath(p)
                /\ m.nodes[p].level = m.nodes[ParentPath(p)].level + 1

(***************************************************************************)
(* C34.  Structure: after any sequence of Sets and Clones, in the tree and *)
(* in its clone, the root is an interior node at level 0, every interior   *)
(* node has its two children, the level of every child is the level of its *)
(* parent plus one, and the parent pointer of every node designates the    *)
(* interior node of the same tree that holds it as a child.                *)
(***************************************************************************)
StructuralInvariant ==
    \A tr \in {"t", "c"} : WellFormed(TreeOf(tr))

\* A tree in which a Set pushed a leaf down to level 3 has just been cloned.
StructuralWitness ==
    /\ resp.op = "Clone"
    /\ Len(hist["c"]) = 2
    /\ \E p \in LeafPaths(TreeOf("c")) : TreeOf("c").nodes[p].level = 3
    /\ TreeOf("c").nodes = Clone(TreeOf("t")).nodes

\* The bits of the path p from the root to a slot.
PathBits(p) == [l \in 1..Len(p) |-> p[l] = 1]

(***************************************************************************)
(* C35.  Every empty node at level l of every tree reached carries as its  *)
(* index the l bits of the path from the root to its slot, padded with     *)
(* zero bits on the right; the root of a new tree has two empty children   *)
(* at level 1 with the prefixes 0 and 1.  (After a split at depth d the    *)
(* path to the empty sibling is the first d bits of the inserted index     *)
(* followed by the bit of its side.)                                       *)
(***************************************************************************)
EmptyNodeIndex ==
    /\ \A tr \in {"t", "c"} :
          LET m == TreeOf(tr)
          IN  \A p \in DOMAIN m.nodes :
                  m.nodes[p].kind = "empty" =>
                      /\ m.nodes[p].level = Len(p)
                      /\ m.nodes[p].index = ToBytes(PathBits(p))
                      /\ \A l \in 1..(8 * Len(m.nodes[p].index)) :
                            ToBits(m.nodes[p].index)[l] = (l <= Len(p) /\ p[l] = 1)
    /\ resp.op = "NewMerkleTree" =>
          /\ TreeOf("t").nodes[<<0>>] = emptyNode(<<>>, 1, <<0>>)
          /\ TreeOf("t").nodes[<<1>>] = emptyNode(<<>>, 1, <<128>>)

\* A Set has just split twice: the empty sibling left at level 2 has the first
\* bit of the inserted index and then the bit of its own side, and the tree is
\* the clone.
EmptyNodeIndexWitness ==
    /\ resp.op = "Set" /\ resp.tr = "c"
    /\ hist["c"] # <<>> /\ hist["c"][Len(hist["c"])][1] = <<33>>
    /\ <<0, 1>> \in DOMAIN TreeOf("c").nodes
    /\ TreeOf("c").nodes[<<0, 1>>].kind = "empty"
    /\ TreeOf("c").nodes[<<0, 1>>].index = <<64>>
    /\ TreeOf("c").nodes[<<0, 0, 1>>].kind = "leaf"

(***************************************************************************)
(* C36.  For indices of one fixed width W, the insertion loop of Set       *)
(* terminates on every input: Set returns, with the tree that insertNode   *)
(* makes; it never reads a bit at position W or beyond (which would        *)
(* panic), and no node is ever at a level greater than W.  With the index  *)
(* of an existing leaf the loop stops at that leaf.                        *)
(***************************************************************************)
InsertTerminates ==
    /\ [](/\ procs["writer"].pc # "panic"
          /\ procs["writer"].pc = "loop" =>
                procs["writer"].depth < 8 * Len(procs["writer"].index)
          /\ \A p \in DOMAIN TreeOf("t").nodes :
                \A index \in Indices : TreeOf("t").nodes[p].level <= 8 * Len(index)
          /\ (procs["writer"].pc = "done" /\ resp.op = "Set") =>
                TreeOf("t").nodes
                    = insertNode(procs["writer"].before, procs["writer"].index,
                                 procs["writer"].toAdd).nodes)
    /\ (procs["writer"].pc = "loop") ~> (procs["writer"].pc = "done")

\* Set has just returned after a loop that split twice, and before it Set
\* returned for the index of an existing leaf, at that leaf.
InsertTerminatesWitness ==
    /\ resp.op = "Set"
    /\ procs["writer"].pc = "done"
    /\ procs["writer"].turns >= 5
    /\ Len(hist["t"]) = 3
    /\ hist["t"][1][1] = hist["t"][2][1]
    /\ \E p \in LeafPaths(TreeOf("t")) : TreeOf("t").nodes[p].level = 3

(***************************************************************************)
(* C37.  For any two STRs a and b, b.VerifyHashChain(a) is true if and     *)
(* only if b.PreviousEpoch = a.Epoch, b.Epoch = a.Epoch + 1 and            *)
(* b.PreviousSTRHash is the digest of a.Signature; once it was true,       *)
(* changing a.Signature to any other byte string makes it false.           *)
(***************************************************************************)
VerifyHashChainIff ==
    /\ resp.op \in {"VerifyHashChain", "VerifyTampered"} =>
          (resp.ok <=> /\ resp.b.PreviousEpoch = resp.a.Epoch
                       /\ resp.b.Epoch = resp.a.Epoch + 1
                       /\ Bs(resp.b.PreviousSTRHash) = Digest(<<resp.a.Signature>>))
    /\ (resp.op = "VerifyTampered" /\ VerifyHashChain(resp.b, resp.was)) => ~resp.ok

\* A chain that verified was verified again after the signature of the saved
\* STR was changed.
VerifyHashChainWitness ==
    /\ resp.op = "VerifyTampered"
    /\ VerifyHashChain(resp.b, resp.was)
    /\ resp.was.Signature = <<21>> /\ resp.a.Signature = <<22>>
    /\ resp.b.Epoch = 2

(***************************************************************************)
(* C38.  In every state of the directory, every entry (name -> TB) of the  *)
(* TB map is the TB that a successful Register of the present epoch        *)
(* returned for name; its Index is the VRF index of name, its Value the    *)
(* value that the current tree holds for name, its Signature the signature *)
(* of latestSTR.Signature || Index || Value for the STR that is the latest *)
(* now, and name is not bound in the tree of the latest snapshot.  (The    *)
(* map has one entry per name at most.)                                    *)
(***************************************************************************)
TBMapInvariant ==
    \A name \in DOMAIN tbs :
        LET tb == tbs[name]
            pending == Get(tree, PadIndex(name)).Leaf
        IN  /\ PendingNow(name)
            /\ registered[name].tb = tb
            /\ tb.Index = PadIndex(name)
            /\ pending.Index = tb.Index /\ ~pending.IsEmpty
            /\ tb.Value = pending.Value
            /\ tb.Value = registered[name].value
            /\ Verify(Public(SignKey), TBBytes(tb, LatestSTR.Signature), tb.Signature)
            /\ Get(PadLatestSTR.tree, PadIndex(name)).Leaf.Index # PadIndex(name)

\* After an Update that bound bob and dropped his TB, a Register has just
\* issued a TB for alice.
TBMapWitness ==
    /\ resp.op = "Register" /\ resp.err = "Success" /\ resp.name = alice
    /\ DOMAIN tbs = {alice}
    /\ BoundEarlier(bob)
    /\ LatestSTR.Epoch >= 1

(***************************************************************************)
(* C39.  For every retained epoch e, the snapshot stored under e has       *)
(* STR.Epoch = e and STR.TreeHash equal to the root hash of the tree of    *)
(* that snapshot, computed from the content of the tree: every name        *)
(* registered in an epoch before e is in that tree with its value.         *)
(***************************************************************************)
SnapshotHashCurrent ==
    \A e \in DOMAIN snapshots :
        LET str == snapshots[e]
        IN  /\ str.Epoch = e
            /\ str.TreeHash = currentHash(str.tree.nodes, <<>>, str.tree.nonce)
            /\ \A name \in DOMAIN registered :
                  registered[name].epoch < e =>
                      LET leaf == Get(str.tree, PadIndex(name)).Leaf
                      IN  /\ leaf.Index = PadIndex(name)
                          /\ leaf.Value = registered[name].value

\* An Update has just ended an epoch in which a name was registered, after an
\* earlier epoch in which another name was; two snapshots are retained.
SnapshotHashWitness ==
    /\ resp.op = "Update"
    /\ LatestSTR.Epoch = 2
    /\ Cardinality(DOMAIN snapshots) = 2
    /\ \E n1 \in DOMAIN registered, n2 \in DOMAIN registered :
          registered[n1].epoch = 0 /\ registered[n2].epoch = 1

====
